---- MODULE Spec2Model ----
(***************************************************************************)
(* Model of the trading_system backfill, heartbeat and registry:           *)
(*   - the price_data table behind PriceRepository (the Store),            *)
(*   - the symbols table behind SymbolRepository (the Registry) and the    *)
(*     caches of the repository instance owned by BackfillService,         *)
(*   - BackfillService._calculate_fetch_window (the planner),              *)
(*   - BackfillService.backfill_symbol (the executor), one step per await, *)
(*     and BackfillService.backfill_all_symbols, the loop around it,       *)
(*   - PriceFetcher.fetch_all and fetch_single (the heartbeat's writer),   *)
(*   - PriceRepository.save and save_many called on their own,             *)
(*   - the retry loop of utils/retry.py,                                   *)
(*   - HeartbeatScheduler: start, stop and the beat loop, one step per     *)
(*     await,                                                              *)
(*   - one SymbolRepository instance with its three caches and the object  *)
(*     identity of the Symbols it hands out,                               *)
(*   - POST /symbols (create_symbol) around backfill_symbol,               *)
(*   - PriceFetcher.fetch_all with its results, the exchange and the store *)
(*     failing per symbol,                                                 *)
(*   - two writers of price_data on the one database connection, one step  *)
(*     per statement,                                                      *)
(*   - the scheduler's two delay functions at every clock second,          *)
(*   - several SymbolRepository instances over the one symbols table,      *)
(*   - backfill_symbol called again and again, with an exchange that       *)
(*     answers in full or with candles of any raw timestamp,               *)
(*   - HeartbeatCoordinator around the scheduler, with the scheduler's     *)
(*     signal handler,                                                     *)
(*   - register calls and POST /symbols requests that overlap, one step    *)
(*     per await.                                                          *)
(* Times are integer milliseconds, as in the source.                       *)
(***************************************************************************)
EXTENDS Integers, Sequences, FiniteSets, TLC

VARIABLES
    now_ms,          \* BinanceClient.milliseconds, the exchange clock
    settings,        \* Settings: backfill_minutes, gap_fill_threshold_minutes, max_gap_fill_minutes
    symbols,         \* rows of the symbols table, in id order (id = position)
    price_data,      \* rows of the price_data table
    svc_repo,        \* caches of BackfillService._symbol_repo
    bf_pc,           \* position of the running backfill_symbol call
    bf_symbol,       \* its argument symbol
    bf_minutes,      \* its local backfill_minutes
    bf_symbol_obj,   \* its local symbol_obj
    bf_window,       \* its local window (the plan)
    bf_attempt,      \* attempts already made by the retry wrapper of its fetch
    bf_request,      \* arguments of the last fetch_ohlcv call of the current/last call
    bf_candles,      \* its local price_data (transformed candles)
    bf_result,       \* what the last backfill_symbol call returned or raised
    exchange_calls,  \* fetch_ohlcv calls made by the current/last backfill_symbol call
    store_writes,    \* price_data write statements made by the current/last call
    last_plan,       \* what _calculate_fetch_window read and returned in the current/last call
    bf_response,     \* the candle list fetch_ohlcv returned in the current/last call
    bf_follows,      \* the current/last call began after an earlier call had completed
    bf_prev,         \* the result of the call before, where the caller repeats the call
    exchange_data,   \* start minutes of the candles a fixed exchange holds
    pf_repo,         \* caches of PriceFetcher._symbol_repo
    ba,              \* the running / last backfill_all_symbols call
    st_call,         \* the last PriceRepository.save / save_many call made on its own
    rt,              \* a function under with_retry / RetryableOperation.execute
    hb,              \* a HeartbeatScheduler, its beat-loop tasks and its stop() calls
    reg,             \* a SymbolRepository instance of a caller and its last call
    api,             \* a POST /symbols request
    pf_call,         \* the last PriceFetcher.fetch_all call
    wr,              \* writers of price_data that run concurrently
    dl,              \* the last call of one of the scheduler's two delay functions
    co,              \* a HeartbeatCoordinator around the scheduler hb
    cr               \* register calls that run concurrently

vars == <<now_ms, settings, symbols, price_data, svc_repo, bf_pc, bf_symbol,
          bf_minutes, bf_symbol_obj, bf_window, bf_attempt, bf_request, bf_candles,
          bf_result, exchange_calls, store_writes, last_plan, bf_response,
          bf_follows, bf_prev, exchange_data, pf_repo, ba, st_call, rt, hb, reg, api, pf_call, wr,
          dl, co, cr>>

bfLocals == <<bf_symbol, bf_minutes, bf_symbol_obj, bf_window, bf_attempt, bf_candles>>

\* what no step of backfill_symbol touches
bfOthers == <<exchange_data, pf_repo, st_call, rt, hb, reg, api, pf_call, wr, dl, co, cr>>

\* what no step of the scheduler touches, rt apart
rtOthersBeat == <<now_ms, settings, symbols, price_data, svc_repo, bf_pc, bf_symbol,
                  bf_minutes, bf_symbol_obj, bf_window, bf_attempt, bf_request,
                  bf_candles, bf_result, exchange_calls, store_writes, last_plan,
                  bf_response, bf_follows, bf_prev, exchange_data, pf_repo, ba, st_call,
                  reg, api, pf_call, wr, dl, co, cr>>

\* everything of the backfill service but its repository caches
bfState == <<bf_pc, bfLocals, bf_request, bf_result, exchange_calls, store_writes,
             last_plan, bf_response, bf_follows, bf_prev, ba>>

-----------------------------------------------------------------------------
(* Bounds of the model *)

\* largest backfill_minutes / minutes argument
MaxDesired == 3
\* largest gap_fill_threshold_minutes
MaxThreshold == 2
\* largest max_gap_fill_minutes
MaxGapLimit == 2
\* stored timestamps reach this many minutes before the last closed minute
MaxBack == 4
\* and this many minutes after it (future-dated rows)
MaxAhead == 1
\* most rows PriceRepository.save callers put into the store
MaxRows == 2
\* most rows of a stored history the planner is run on
MaxStored == 3
\* longest candle list the exchange answers with
MaxCandles == 2

-----------------------------------------------------------------------------
(* Values *)

\* Python's None
None == [none |-> TRUE]

MINUTE_MS == 60000

SymbolNames == {"BTC/USDT", "ETH/USDT"}

\* the names that get registered; the other names stay unknown to the Registry
RegisteredNames == {"BTC/USDT"}

\* the exchange clock values explored: on a minute boundary and just before
\* the next one
BaseNow == 20 * MINUTE_MS
NowChoices == {BaseNow, BaseNow + 59999}

SettingsChoices ==
    [backfill_minutes: 1..MaxDesired,
     gap_fill_threshold_minutes: 0..MaxThreshold,
     max_gap_fill_minutes: 1..MaxGapLimit]

\* (variant: the start of the current, still forming minute)
UntilMsCurrentMinute(now) == (now \div 60000) * 60000

\* floor(now_ms / 60000) * 60000 - 60000
UntilMs(now) == ((now \div 60000) * 60000) - 60000

\* timestamps a caller of PriceRepository.save may pass: minute-aligned ones
\* around the last closed minute, and a few that are not aligned
AlignedTimestamps == {UntilMs(BaseNow) + k * MINUTE_MS : k \in (0 - MaxBack)..MaxAhead}
UnalignedTimestamps == {UntilMs(BaseNow) + h * 30000 : h \in {-3, -1}}
Timestamps == AlignedTimestamps \cup UnalignedTimestamps

\* the running system is explored with the settings of the test fixture,
\* scaled down (backfill 2 minutes, threshold 1 minute, the largest gap limit),
\* just after a minute boundary, and with writers that store the last minutes
SystemSettings ==
    {s \in SettingsChoices :
        /\ s.backfill_minutes = 2
        /\ s.gap_fill_threshold_minutes = 1
        /\ s.max_gap_fill_minutes = MaxGapLimit}
SystemNow == {BaseNow + 1}
SaveTimestamps == {UntilMs(BaseNow) - k * MINUTE_MS : k \in 0..2}

\* candle prices enter no decision of the planner or the executor: one value
Prices == {1}

-----------------------------------------------------------------------------
(* The Store: the price_data table behind PriceRepository *)

\* one row of price_data; (symbol_id, timestamp) is the conflict key
PriceRow(symbol_id, timestamp, open, high, low, close, volume) ==
    [symbol_id |-> symbol_id, timestamp |-> timestamp, open |-> open,
     high |-> high, low |-> low, close |-> close, volume |-> volume]

RowsOf(rows, symbol_id) == {r \in rows : r.symbol_id = symbol_id}

\* (variant: the timestamp is floored to its minute by the table)
UpsertFloored(rows, row) ==
    LET floored == [row EXCEPT !.timestamp = (row.timestamp \div 60000) * 60000]
    IN {r \in rows : ~(r.symbol_id = floored.symbol_id /\ r.timestamp = floored.timestamp)}
            \cup {floored}

\* (variant: INSERT OR IGNORE, a stored point is never overwritten)
UpsertIgnore(rows, row) ==
    IF \E r \in rows : r.symbol_id = row.symbol_id /\ r.timestamp = row.timestamp
    THEN rows
    ELSE rows \cup {row}

\* (variant: ON CONFLICT ... DO UPDATE SET close only)
UpsertClose(rows, row) ==
    {r \in rows : ~(r.symbol_id = row.symbol_id /\ r.timestamp = row.timestamp)}
        \cup {IF \E r \in rows : r.symbol_id = row.symbol_id /\ r.timestamp = row.timestamp
               THEN [(CHOOSE r \in rows :
                         r.symbol_id = row.symbol_id /\ r.timestamp = row.timestamp)
                     EXCEPT !.close = row.close]
               ELSE row}

\* INSERT ... ON CONFLICT(symbol_id, timestamp) DO UPDATE SET open, high, low, close, volume
Upsert(rows, row) ==
    {r \in rows : ~(r.symbol_id = row.symbol_id /\ r.timestamp = row.timestamp)}
        \cup {row}

\* SELECT ... WHERE symbol_id = ? ORDER BY timestamp DESC LIMIT 1
get_latest(rows, symbol_id) ==
    LET mine == RowsOf(rows, symbol_id)
    IN IF mine = {} THEN None
       ELSE CHOOSE r \in mine : \A o \in mine : o.timestamp <= r.timestamp

\* the oldest stored point of the symbol (the single-row "oldest" query)
get_oldest(rows, symbol_id) ==
    LET mine == RowsOf(rows, symbol_id)
    IN IF mine = {} THEN None
       ELSE CHOOSE r \in mine : \A o \in mine : r.timestamp <= o.timestamp

\* SELECT COUNT(*) FROM price_data WHERE symbol_id = ?
count(rows, symbol_id) == Cardinality(RowsOf(rows, symbol_id))

-----------------------------------------------------------------------------
(* The planner: BackfillService._calculate_fetch_window *)

Window(since_ms, until_ms, limit, strategy) ==
    [since_ms |-> since_ms, until_ms |-> until_ms, limit |-> limit, strategy |-> strategy]

\* (variant: the limit already counts the forming candle the fetch adds)
FullBackfillWindowForming(until_ms, required_ms, backfill_minutes) ==
    Window(until_ms - required_ms, until_ms, backfill_minutes + 1, "full_backfill")

\* (variant: one minute more than desired)
FullBackfillWindowOneMore(until_ms, required_ms, backfill_minutes) ==
    Window(until_ms - required_ms - 60000, until_ms, backfill_minutes + 1, "full_backfill")

\* no stored point: standard backfill of the whole desired window
FullBackfillWindow(until_ms, required_ms, backfill_minutes) ==
    Window(until_ms - required_ms, until_ms, backfill_minutes, "full_backfill")

\* (variant: a negative gap counted by its size)
GapMsAbsolute(until_ms, latest) ==
    LET gap_ms == until_ms - latest.timestamp
    IN IF gap_ms < 0 THEN 0 - gap_ms ELSE gap_ms

\* gap between the latest stored point and the last closed minute; a negative
\* gap (clock skew) is treated as 0
GapMs(until_ms, latest) ==
    LET gap_ms == until_ms - latest.timestamp
    IN IF gap_ms < 0 THEN 0 ELSE gap_ms

\* (variant: a gap of exactly the threshold counts as a gap)
IsContinuousStrict(gap_ms, threshold_ms) == gap_ms < threshold_ms

\* the split between the continuous path and the gap path
IsContinuous(gap_ms, threshold_ms) == gap_ms <= threshold_ms

\* (variant: history of exactly the required span counts as insufficient)
ContinuousWindowStrict(until_ms, required_ms, backfill_minutes, oldest) ==
    LET existing_ms == IF oldest # None THEN until_ms - oldest.timestamp ELSE 0
    IN IF existing_ms > required_ms
       THEN [since_ms |-> 0, until_ms |-> 0, limit |-> 0,
             strategy |-> "no_action", reason |-> "sufficient_history"]
       ELSE Window(until_ms - required_ms, until_ms, backfill_minutes, "extend_backward")

\* continuous data: nothing to do, or re-fetch the whole desired window
ContinuousWindow(until_ms, required_ms, backfill_minutes, oldest) ==
    LET existing_ms == IF oldest # None THEN until_ms - oldest.timestamp ELSE 0
    IN IF existing_ms >= required_ms
       THEN [since_ms |-> 0, until_ms |-> 0, limit |-> 0,
             strategy |-> "no_action", reason |-> "sufficient_history"]
       ELSE Window(until_ms - required_ms, until_ms, backfill_minutes, "extend_backward")

\* (variant: gap_plus_extend fills the gap only and leaves the extension to
\* a later call)
GapStrategyGapFirst(until_ms, required_ms, gap_ms, latest, oldest) ==
    LET existing_ms == IF oldest # None THEN latest.timestamp - oldest.timestamp ELSE 0
    IN IF (gap_ms + existing_ms) < required_ms
       THEN [since_ms |-> latest.timestamp + 60000, strategy |-> "gap_plus_extend"]
       ELSE [since_ms |-> latest.timestamp + 60000, strategy |-> "gap_only"]

\* (variant: gap_only starts at the last stored point itself)
GapStrategyFromLatest(until_ms, required_ms, gap_ms, latest, oldest) ==
    LET existing_ms == IF oldest # None THEN latest.timestamp - oldest.timestamp ELSE 0
    IN IF (gap_ms + existing_ms) < required_ms
       THEN [since_ms |-> until_ms - required_ms, strategy |-> "gap_plus_extend"]
       ELSE [since_ms |-> latest.timestamp, strategy |-> "gap_only"]

\* gap detected: where the fetch starts and under which name, before the limit
GapStrategy(until_ms, required_ms, gap_ms, latest, oldest) ==
    LET existing_ms == IF oldest # None THEN latest.timestamp - oldest.timestamp ELSE 0
    IN IF (gap_ms + existing_ms) < required_ms
       THEN [since_ms |-> until_ms - required_ms, strategy |-> "gap_plus_extend"]
       ELSE [since_ms |-> latest.timestamp + 60000, strategy |-> "gap_only"]

Limited(strategy) ==
    IF strategy = "gap_only" THEN "gap_only_limited" ELSE "gap_plus_extend_limited"

\* (variant: a window of exactly the maximum is already limited)
ApplyMaxGapLimitAtMax(until_ms, chosen, max_gap_ms) ==
    LET fetch_window_ms == until_ms - chosen.since_ms
        since_ms == IF fetch_window_ms >= max_gap_ms
                    THEN until_ms - max_gap_ms ELSE chosen.since_ms
        strategy == IF fetch_window_ms >= max_gap_ms
                    THEN Limited(chosen.strategy) ELSE chosen.strategy
    IN Window(since_ms, until_ms, (until_ms - since_ms) \div 60000, strategy)

\* (variant: the window is named limited but not clamped)
ApplyMaxGapLimitNoClamp(until_ms, chosen, max_gap_ms) ==
    LET fetch_window_ms == until_ms - chosen.since_ms
        strategy == IF fetch_window_ms > max_gap_ms
                    THEN Limited(chosen.strategy) ELSE chosen.strategy
    IN Window(chosen.since_ms, until_ms, (until_ms - chosen.since_ms) \div 60000, strategy)

\* the max gap limit and the resulting limit
ApplyMaxGapLimit(until_ms, chosen, max_gap_ms) ==
    LET fetch_window_ms == until_ms - chosen.since_ms
        since_ms == IF fetch_window_ms > max_gap_ms
                    THEN until_ms - max_gap_ms ELSE chosen.since_ms
        strategy == IF fetch_window_ms > max_gap_ms
                    THEN Limited(chosen.strategy) ELSE chosen.strategy
    IN Window(since_ms, until_ms, (until_ms - since_ms) \div 60000, strategy)

\* (variant: existing history measured by the number of rows)
calculate_fetch_window_by_count(rows, symbol_id, backfill_minutes) ==
    LET until_ms == UntilMs(now_ms)
        required_ms == backfill_minutes * 60 * 1000
        latest == get_latest(rows, symbol_id)
    IN IF latest = None
       THEN FullBackfillWindow(until_ms, required_ms, backfill_minutes)
       ELSE LET gap_ms == GapMs(until_ms, latest)
                threshold_ms == settings.gap_fill_threshold_minutes * 60 * 1000
                oldest == [timestamp |-> until_ms - count(rows, symbol_id) * 60000]
            IN IF IsContinuous(gap_ms, threshold_ms)
               THEN ContinuousWindow(until_ms, required_ms, backfill_minutes, oldest)
               ELSE ApplyMaxGapLimit(
                        until_ms,
                        GapStrategy(until_ms, required_ms, gap_ms, latest, oldest),
                        settings.max_gap_fill_minutes * 60 * 1000)

\* rows: the contents of price_data that the two read queries see
calculate_fetch_window(rows, symbol_id, backfill_minutes) ==
    LET until_ms == UntilMs(now_ms)
        required_ms == backfill_minutes * 60 * 1000
        latest == get_latest(rows, symbol_id)
    IN IF latest = None
       THEN FullBackfillWindow(until_ms, required_ms, backfill_minutes)
       ELSE LET gap_ms == GapMs(until_ms, latest)
                threshold_ms == settings.gap_fill_threshold_minutes * 60 * 1000
                oldest == get_oldest(rows, symbol_id)
            IN IF IsContinuous(gap_ms, threshold_ms)
               THEN ContinuousWindow(until_ms, required_ms, backfill_minutes, oldest)
               ELSE ApplyMaxGapLimit(
                        until_ms,
                        GapStrategy(until_ms, required_ms, gap_ms, latest, oldest),
                        settings.max_gap_fill_minutes * 60 * 1000)

-----------------------------------------------------------------------------
(* The Registry: the symbols table and SymbolRepository *)

\* one row of symbols, as a Symbol object; last_price 0 stands for NULL, and
\* created_at, the time of the INSERT, is recorded as the rank of the INSERT
SymbolRow(id, symbol, is_active) ==
    [id |-> id, symbol |-> symbol, is_active |-> is_active, last_price |-> 0,
     created_at |-> id]

NoEntries == [k \in {} |-> None]

\* SymbolRepository.__init__: empty caches
NewRepo == [cache |-> NoEntries, symbol_cache |-> NoEntries, active_list_cache |-> None]

\* SELECT * FROM symbols WHERE symbol = ?
RowBySymbol(symbol) ==
    IF \E i \in 1..Len(symbols) : symbols[i].symbol = symbol
    THEN symbols[CHOOSE i \in 1..Len(symbols) : symbols[i].symbol = symbol]
    ELSE None

\* SymbolRepository.get_by_symbol: the cached object if any, else the row,
\* which is then cached by id and by name
get_by_symbol(repo, symbol) ==
    IF symbol \in DOMAIN repo.symbol_cache
    THEN [result |-> repo.symbol_cache[symbol], repo |-> repo]
    ELSE LET row == RowBySymbol(symbol)
         IN IF row = None
            THEN [result |-> None, repo |-> repo]
            ELSE [result |-> row,
                  repo |-> [repo EXCEPT
                      !.cache = (row.id :> row) @@ repo.cache,
                      !.symbol_cache = (symbol :> row) @@ repo.symbol_cache]]

\* the names in the order of ORDER BY symbol
SortedNames == <<"BTC/USDT", "ETH/USDT">>

\* SELECT * FROM symbols WHERE is_active = 1 ORDER BY symbol
ActiveRows ==
    LET names == SelectSeq(SortedNames,
                           LAMBDA n : IF RowBySymbol(n) = None THEN FALSE
                                      ELSE RowBySymbol(n).is_active)
    IN [i \in 1..Len(names) |-> RowBySymbol(names[i])]

\* SymbolRepository.list_active: the cached list if any, else the active
\* rows, which are then cached by id, by name and as the list
list_active(repo) ==
    IF repo.active_list_cache # None
    THEN [result |-> repo.active_list_cache.list, repo |-> repo]
    ELSE LET found == ActiveRows
             ids == {found[i].id : i \in 1..Len(found)}
             names == {found[i].symbol : i \in 1..Len(found)}
         IN [result |-> found,
             repo |-> [cache |-> [id \in ids |-> symbols[id]] @@ repo.cache,
                       symbol_cache |-> [n \in names |-> RowBySymbol(n)] @@ repo.symbol_cache,
                       active_list_cache |-> [list |-> found]]]

\* SymbolRepository.update_last_price through the instance repo, on the table
\* syms: the row, and the cached object of that id, which the three caches
\* share
update_last_price(syms, repo, symbol_id, price) ==
    IF symbol_id \notin 1..Len(syms)
    THEN [symbols |-> syms, repo |-> repo]
    ELSE LET touch(obj) == IF obj.id = symbol_id THEN [obj EXCEPT !.last_price = price] ELSE obj
         IN [symbols |-> [syms EXCEPT ![symbol_id].last_price = price],
             repo |-> IF symbol_id \in DOMAIN repo.cache
                      THEN [cache |-> [id \in DOMAIN repo.cache |-> touch(repo.cache[id])],
                            symbol_cache |-> [n \in DOMAIN repo.symbol_cache |->
                                                touch(repo.symbol_cache[n])],
                            active_list_cache |->
                                IF repo.active_list_cache = None THEN None
                                ELSE [list |-> [i \in 1..Len(repo.active_list_cache.list) |->
                                                    touch(repo.active_list_cache.list[i])]]]
                      ELSE repo]

\* SymbolRepository.register on a repository instance of its own (as the API
\* and the command line create one per request)
register(symbol) ==
    /\ LET existing == RowBySymbol(symbol)
       IN IF existing # None
          THEN IF existing.is_active
               THEN UNCHANGED symbols
               ELSE symbols' = [symbols EXCEPT ![existing.id].is_active = TRUE]
          ELSE symbols' = Append(symbols, SymbolRow(Len(symbols) + 1, symbol, TRUE))
    /\ UNCHANGED <<now_ms, settings, price_data, svc_repo, bfState, bfOthers>>

\* SymbolRepository.deactivate on a repository instance of its own
deactivate(symbol_id) ==
    /\ symbol_id \in 1..Len(symbols)
    /\ symbols' = [symbols EXCEPT ![symbol_id].is_active = FALSE]
    /\ UNCHANGED <<now_ms, settings, price_data, svc_repo, bfState, bfOthers>>

-----------------------------------------------------------------------------
(* One SymbolRepository instance and the calls a caller makes through it, one
   after the other.  A Symbol object is a record that carries, as oid, the rank
   of its creation by from_row: two cache entries are the same object exactly
   when their oid is the same, and an assignment to a field of an object shows
   in every entry that holds the object.  reg holds the three caches, the count
   of objects created so far and, as call, the last call with its result. *)

MaxObjects == 5

\* prices passed to update_last_price
RegPrices == {1, 2}

\* symbol ids passed to get, deactivate and update_last_price: those the table
\* can hold and one it cannot
SymbolIds == 1..3

\* Symbol.from_row
from_row(row, oid) ==
    [id |-> row.id, symbol |-> row.symbol, is_active |-> row.is_active,
     last_price |-> row.last_price, created_at |-> row.created_at, oid |-> oid]

\* SymbolRepository.__init__, and no call made yet
NewInstance ==
    [cache |-> NoEntries, symbol_cache |-> NoEntries, active_list_cache |-> None,
     objects |-> 0, call |-> None]

\* SELECT * FROM symbols WHERE symbol = ?, on the table syms
SelectBySymbol(syms, symbol) ==
    IF \E i \in 1..Len(syms) : syms[i].symbol = symbol
    THEN syms[CHOOSE i \in 1..Len(syms) : syms[i].symbol = symbol]
    ELSE None

\* SymbolRepository._invalidate_cache
invalidate_cache(r) ==
    [r EXCEPT !.cache = NoEntries, !.symbol_cache = NoEntries, !.active_list_cache = None]

\* SymbolRepository.get
repo_get(syms, r, symbol_id) ==
    IF symbol_id \in DOMAIN r.cache
    THEN [symbols |-> syms, repo |-> r, result |-> r.cache[symbol_id]]
    ELSE IF symbol_id \notin 1..Len(syms)
         THEN [symbols |-> syms, repo |-> r, result |-> None]
         ELSE LET symbol == from_row(syms[symbol_id], r.objects + 1)
              IN [symbols |-> syms,
                  repo |-> [r EXCEPT !.cache = (symbol_id :> symbol) @@ @,
                                     !.symbol_cache = (symbol.symbol :> symbol) @@ @,
                                     !.objects = @ + 1],
                  result |-> symbol]

\* SymbolRepository.get_by_symbol
repo_get_by_symbol(syms, r, symbol) ==
    IF symbol \in DOMAIN r.symbol_cache
    THEN [symbols |-> syms, repo |-> r, result |-> r.symbol_cache[symbol]]
    ELSE LET row == SelectBySymbol(syms, symbol)
         IN IF row = None
            THEN [symbols |-> syms, repo |-> r, result |-> None]
            ELSE LET result == from_row(row, r.objects + 1)
                 IN [symbols |-> syms,
                     repo |-> [r EXCEPT !.cache = (result.id :> result) @@ @,
                                        !.symbol_cache = (symbol :> result) @@ @,
                                        !.objects = @ + 1],
                     result |-> result]

\* SymbolRepository.list_active
repo_list_active(syms, r) ==
    IF r.active_list_cache # None
    THEN [symbols |-> syms, repo |-> r, result |-> r.active_list_cache]
    ELSE LET names == SelectSeq(SortedNames,
                                LAMBDA n : IF SelectBySymbol(syms, n) = None THEN FALSE
                                           ELSE SelectBySymbol(syms, n).is_active)
             found == [i \in 1..Len(names) |->
                          from_row(SelectBySymbol(syms, names[i]), r.objects + i)]
             at(n) == CHOOSE i \in 1..Len(found) : found[i].symbol = n
             by_name == [n \in {names[i] : i \in 1..Len(names)} |-> found[at(n)]]
             by_id == [id \in {found[i].id : i \in 1..Len(found)} |->
                          found[CHOOSE i \in 1..Len(found) : found[i].id = id]]
         IN [symbols |-> syms,
             repo |-> [r EXCEPT !.cache = by_id @@ @,
                                !.symbol_cache = by_name @@ @,
                                !.active_list_cache = [list |-> found],
                                !.objects = @ + Len(found)],
             result |-> [list |-> found]]

repo_register_inserts_again(syms, r, symbol) ==
    LET looked == repo_get_by_symbol(syms, r, symbol)
        existing == looked.result
        symbol_id == Len(syms) + 1
        got == repo_get(Append(syms, SymbolRow(symbol_id, symbol, TRUE)),
                        looked.repo, symbol_id)
    IN IF existing # None /\ existing.is_active
       THEN [symbols |-> syms, repo |-> looked.repo, result |-> [raised |-> "ValueError"]]
       ELSE [symbols |-> got.symbols, repo |-> invalidate_cache(got.repo),
             result |-> got.result]

\* SymbolRepository.register
repo_register(syms, r, symbol) ==
    LET looked == repo_get_by_symbol(syms, r, symbol)
        existing == looked.result
    IN IF existing # None
       THEN IF existing.is_active
            THEN [symbols |-> syms, repo |-> looked.repo,
                  result |-> [raised |-> "ValueError"]]
            ELSE repo_get([syms EXCEPT ![existing.id].is_active = TRUE],
                          invalidate_cache(looked.repo), existing.id)
       ELSE LET symbol_id == Len(syms) + 1
                got == repo_get(Append(syms, SymbolRow(symbol_id, symbol, TRUE)),
                                looked.repo, symbol_id)
            IN [symbols |-> got.symbols, repo |-> invalidate_cache(got.repo),
                result |-> got.result]

repo_deactivate_keeps_cache(syms, r, symbol_id) ==
    IF symbol_id \notin 1..Len(syms)
    THEN [symbols |-> syms, repo |-> r, result |-> [value |-> FALSE]]
    ELSE [symbols |-> [syms EXCEPT ![symbol_id].is_active = FALSE],
          repo |-> r,
          result |-> [value |-> TRUE]]

\* SymbolRepository.deactivate
repo_deactivate(syms, r, symbol_id) ==
    IF symbol_id \notin 1..Len(syms)
    THEN [symbols |-> syms, repo |-> r, result |-> [value |-> FALSE]]
    ELSE [symbols |-> [syms EXCEPT ![symbol_id].is_active = FALSE],
          repo |-> invalidate_cache(r),
          result |-> [value |-> TRUE]]

repo_update_last_price_row_only(syms, r, symbol_id, price) ==
    IF symbol_id \notin 1..Len(syms)
    THEN [symbols |-> syms, repo |-> r, result |-> [value |-> FALSE]]
    ELSE [symbols |-> [syms EXCEPT ![symbol_id].last_price = price],
          repo |-> r,
          result |-> [value |-> TRUE]]

\* SymbolRepository.update_last_price: the row, and the object cached under
\* the id
repo_update_last_price(syms, r, symbol_id, price) ==
    IF symbol_id \notin 1..Len(syms)
    THEN [symbols |-> syms, repo |-> r, result |-> [value |-> FALSE]]
    ELSE LET touch(obj) ==
                 IF obj.oid = r.cache[symbol_id].oid
                 THEN [obj EXCEPT !.last_price = price] ELSE obj
         IN [symbols |-> [syms EXCEPT ![symbol_id].last_price = price],
             repo |-> IF symbol_id \notin DOMAIN r.cache THEN r
                      ELSE [r EXCEPT
                              !.cache = [id \in DOMAIN @ |-> touch(@[id])],
                              !.symbol_cache = [n \in DOMAIN @ |-> touch(@[n])],
                              !.active_list_cache =
                                  IF @ = None THEN None
                                  ELSE [list |-> [i \in 1..Len(@.list) |-> touch(@.list[i])]]],
             result |-> [value |-> TRUE]]

regOthers == <<now_ms, settings, price_data, svc_repo, bfState, exchange_data, pf_repo,
               st_call, rt, hb, api, pf_call, wr, dl, co, cr>>

NoArgs == [symbol |-> "", symbol_id |-> 0, price |-> 0]

\* a call through the instance: its effect on the table and the caches, and
\* what it returned or raised
Called(op, args, out) ==
    /\ out.repo.objects <= MaxObjects
    /\ symbols' = out.symbols
    /\ reg' = [out.repo EXCEPT !.call = [op |-> op, args |-> args, result |-> out.result]]
    /\ UNCHANGED regOthers

SymbolRepository_register(symbol) ==
    Called("register", [NoArgs EXCEPT !.symbol = symbol], repo_register(symbols, reg, symbol))

SymbolRepository_deactivate(symbol_id) ==
    Called("deactivate", [NoArgs EXCEPT !.symbol_id = symbol_id],
           repo_deactivate(symbols, reg, symbol_id))

SymbolRepository_update_last_price(symbol_id, price) ==
    Called("update_last_price", [NoArgs EXCEPT !.symbol_id = symbol_id, !.price = price],
           repo_update_last_price(symbols, reg, symbol_id, price))

SymbolRepository_get(symbol_id) ==
    Called("get", [NoArgs EXCEPT !.symbol_id = symbol_id], repo_get(symbols, reg, symbol_id))

SymbolRepository_get_by_symbol(symbol) ==
    Called("get_by_symbol", [NoArgs EXCEPT !.symbol = symbol],
           repo_get_by_symbol(symbols, reg, symbol))

SymbolRepository_list_active ==
    Called("list_active", NoArgs, repo_list_active(symbols, reg))

-----------------------------------------------------------------------------
(* The exchange, as BinanceClient.fetch_ohlcv hands it to the service *)

\* attempts of the retry policy around the exchange fetch
DEFAULT_RETRY_ATTEMPTS == 3

\* OHLCVData; a candle of price p carries p in every field
OHLCVData(timestamp, p) ==
    [timestamp |-> timestamp, open |-> p, high |-> p, low |-> p, close |-> p, volume |-> p]

\* the first minute boundary at or after t
CeilMinute(t) == ((t + 59999) \div 60000) * 60000

\* the start times of the n consecutive one-minute candles a request
\* (since, limit = n, timeframe 1m) addresses
RequestedCandleStarts(since, n) == {CeilMinute(since) + i * 60000 : i \in 0..(n - 1)}

\* the arguments _fetch_with_retry passes to fetch_ohlcv
FetchRequest(symbol, since_ms, limit) ==
    [symbol |-> symbol, timeframe |-> "1m", since |-> since_ms, limit |-> limit + 1]

-----------------------------------------------------------------------------
(* The executor: BackfillService.backfill_symbol *)

\* what _calculate_fetch_window reads: its argument, the clock, the settings
\* and the two rows
PlanInputs(rows, symbol_id, backfill_minutes) ==
    LET latest == get_latest(rows, symbol_id)
        oldest == get_oldest(rows, symbol_id)
    IN [desired_minutes |-> backfill_minutes,
        now_ms |-> now_ms,
        threshold_minutes |-> settings.gap_fill_threshold_minutes,
        max_gap_minutes |-> settings.max_gap_fill_minutes,
        has_data |-> latest # None,
        latest_ts |-> IF latest # None THEN latest.timestamp ELSE 0,
        oldest_ts |-> IF oldest # None THEN oldest.timestamp ELSE 0]

\* (variant: only a retryable error is turned into an entry, any other
\* exception is passed on)
ResultEntryRetryableOnly(symbol, result) ==
    IF "raised" \in DOMAIN result /\ result.raised = "NetworkError"
    THEN [symbol |-> symbol, status |-> "error", error |-> result.raised,
          records_stored |-> 0]
    ELSE result

\* backfill_all_symbols: the entry appended for a call that returned or raised
ResultEntry(symbol, result) ==
    IF "raised" \in DOMAIN result
    THEN [symbol |-> symbol, status |-> "error", error |-> result.raised,
          records_stored |-> 0]
    ELSE result

\* the call is over: its locals are gone, its outcome stays; inside
\* backfill_all_symbols the outcome becomes the next entry of the list, and
\* after the last symbol the list is returned
Return(result) ==
    /\ bf_result' = result
    /\ bf_pc' = "idle"
    /\ bf_symbol' = ""
    /\ bf_minutes' = 0
    /\ bf_symbol_obj' = None
    /\ bf_window' = None
    /\ bf_attempt' = 0
    /\ bf_candles' = <<>>
    /\ ba' = IF ba.pc = "loop"
             THEN LET symbol_obj == ba.symbols[Len(ba.results) + 1]
                      results == Append(ba.results, ResultEntry(symbol_obj.symbol, result))
                  IN [ba EXCEPT !.results = results,
                                !.pc = IF Len(results) = Len(ba.symbols)
                                       THEN "done" ELSE "loop"]
             ELSE ba

\* (variant: an unknown symbol is registered on the fly instead of refused)
backfill_symbol_get_or_create(symbol, minutes) ==
    /\ bf_pc = "idle"
    /\ LET found == get_by_symbol(svc_repo, symbol)
       IN /\ svc_repo' = found.repo
          /\ IF found.result = None
             THEN /\ symbols' = Append(symbols, SymbolRow(Len(symbols) + 1, symbol, TRUE))
                  /\ Return([raised |-> "ValueError", symbol |-> symbol])
             ELSE /\ bf_result' = None
                  /\ bf_pc' = "plan"
                  /\ bf_symbol' = symbol
                  /\ bf_minutes' = IF minutes = 0 THEN settings.backfill_minutes ELSE minutes
                  /\ bf_symbol_obj' = found.result
                  /\ UNCHANGED <<symbols, bf_window, bf_attempt, bf_candles, ba>>
    /\ exchange_calls' = 0
    /\ store_writes' = 0
    /\ bf_request' = None
    /\ bf_response' = None
    /\ last_plan' = None
    /\ bf_follows' = (bf_result # None)
    /\ bf_prev' = None
    /\ UNCHANGED <<now_ms, settings, price_data, bfOthers>>

\* backfill_symbol(symbol, minutes) up to the registry lookup; minutes = 0
\* stands for both None and 0, which "minutes or ..." treats alike; prev is
\* what the caller keeps of the call before
backfill_symbol_call(symbol, minutes, prev) ==
    /\ bf_pc = "idle"
    /\ LET found == get_by_symbol(svc_repo, symbol)
       IN /\ svc_repo' = found.repo
          /\ IF found.result = None
             THEN Return([raised |-> "ValueError", symbol |-> symbol])
             ELSE /\ bf_result' = None
                  /\ bf_pc' = "plan"
                  /\ bf_symbol' = symbol
                  /\ bf_minutes' = IF minutes = 0 THEN settings.backfill_minutes ELSE minutes
                  /\ bf_symbol_obj' = found.result
                  /\ UNCHANGED <<bf_window, bf_attempt, bf_candles, ba>>
    /\ exchange_calls' = 0
    /\ store_writes' = 0
    /\ bf_request' = None
    /\ bf_response' = None
    /\ last_plan' = None
    /\ bf_follows' = (bf_result # None)
    /\ bf_prev' = prev
    /\ UNCHANGED <<now_ms, settings, symbols, price_data, bfOthers>>

\* a call whose caller keeps nothing of the call before
backfill_symbol(symbol, minutes) == backfill_symbol_call(symbol, minutes, None)

\* backfill_symbol: the plan, and the immediate return on no_action
backfill_symbol_plan ==
    /\ bf_pc = "plan"
    /\ LET window == calculate_fetch_window(price_data, bf_symbol_obj.id, bf_minutes)
       IN /\ last_plan' = [inputs |-> PlanInputs(price_data, bf_symbol_obj.id, bf_minutes),
                           window |-> window,
                           stored |-> count(price_data, bf_symbol_obj.id)]
          /\ IF window.strategy = "no_action"
             THEN Return([symbol |-> bf_symbol, status |-> "no_action",
                          reason |-> window.reason, records_stored |-> 0])
             ELSE /\ bf_pc' = "fetch"
                  /\ bf_window' = window
                  /\ UNCHANGED <<bf_symbol, bf_minutes, bf_symbol_obj, bf_attempt,
                                 bf_candles, bf_result, ba>>
    /\ UNCHANGED <<now_ms, settings, symbols, price_data, svc_repo, bf_request,
                   bf_response, bf_follows, bf_prev, exchange_calls, store_writes, bfOthers>>

\* _transform_candles: each timestamp floored to its minute
RECURSIVE transform_candles(_, _)
transform_candles(symbol_id, candles) ==
    IF candles = <<>> THEN <<>>
    ELSE LET candle == Head(candles)
             minute_ts == (candle.timestamp \div 60000) * 60000
         IN <<PriceRow(symbol_id, minute_ts, candle.open, candle.high, candle.low,
                       candle.close, candle.volume)>>
                \o transform_candles(symbol_id, Tail(candles))

\* the candle lists the exchange may answer a request with: candles of
\* different minutes the request addresses, ascending, at most request.limit
\* and at most MaxCandles of them, their raw timestamps all on the minute
\* boundary or all just after it
CandleTimestamps(request) ==
    {t + d : t \in RequestedCandleStarts(request.since, request.limit), d \in {0, 1}}
Candles(request) == {OHLCVData(t, p) : t \in CandleTimestamps(request), p \in Prices}
ExchangeResponses(request) ==
    UNION {{c \in [1..n -> Candles(request)] :
                /\ \A i \in 1..(n - 1) : c[i].timestamp < c[i + 1].timestamp
                /\ \A i \in 1..n : c[i].timestamp % 60000 = c[1].timestamp % 60000} :
           n \in 0..(IF request.limit < MaxCandles
                     THEN (IF request.limit < 0 THEN 0 ELSE request.limit)
                     ELSE MaxCandles)}

\* the answer of an exchange that holds exactly the candles starting at the
\* minutes in held: the first request.limit of them from request.since on, in
\* ascending order
RECURSIVE FirstCandles(_, _)
FirstCandles(starts, n) ==
    IF starts = {} \/ n <= 0 THEN <<>>
    ELSE LET first == CHOOSE t \in starts : \A o \in starts : t <= o
         IN <<OHLCVData(first, 1)>> \o FirstCandles(starts \ {first}, n - 1)
FixedResponse(held, request) ==
    FirstCandles({t \in held : t >= request.since}, request.limit)

\* (variant: an empty answer reported as a success)
NoDataResultAsSuccess(symbol, window) ==
    [symbol |-> symbol, status |-> "success", strategy |-> window.strategy,
     records_stored |-> 0]

\* backfill_symbol: the result for an empty candle list
NoDataResult(symbol, window) ==
    [symbol |-> symbol, status |-> "no_data", strategy |-> window.strategy,
     records_stored |-> 0]

\* (variant: records_stored taken from the planned limit)
SuccessResultFromLimit(symbol, window, rows) ==
    [symbol |-> symbol, status |-> "success", strategy |-> window.strategy,
     records_stored |-> window.limit,
     fetch_from_ms |-> window.since_ms, fetch_to_ms |-> window.until_ms]

\* backfill_symbol: the result after the batch write of rows
SuccessResult(symbol, window, rows) ==
    [symbol |-> symbol, status |-> "success", strategy |-> window.strategy,
     records_stored |-> Len(rows),
     fetch_from_ms |-> window.since_ms, fetch_to_ms |-> window.until_ms]

\* one attempt of _fetch_with_retry that returns one of responses, and what
\* backfill_symbol does with the candles up to the batch write
fetch_returns(responses) ==
    /\ bf_pc = "fetch"
    /\ \E candles \in responses :
        /\ bf_request' = FetchRequest(bf_symbol, bf_window.since_ms, bf_window.limit)
        /\ bf_response' = [candles |-> candles]
        /\ exchange_calls' = exchange_calls + 1
        /\ IF candles = <<>>
           THEN Return(NoDataResult(bf_symbol, bf_window))
           ELSE /\ bf_pc' = "store"
                /\ bf_candles' = transform_candles(bf_symbol_obj.id, candles)
                /\ UNCHANGED <<bf_symbol, bf_minutes, bf_symbol_obj, bf_window,
                               bf_attempt, bf_result, ba>>
    /\ UNCHANGED <<now_ms, settings, symbols, price_data, svc_repo, store_writes,
                   last_plan, bf_follows, bf_prev, bfOthers>>

\* the attempt returns whatever the exchange may answer
fetch_with_retry_returns ==
    fetch_returns(ExchangeResponses(
        FetchRequest(bf_symbol, bf_window.since_ms, bf_window.limit)))

\* (variant: the fetch is not wrapped, every error is raised at once)
fetch_without_retry_raises ==
    /\ bf_pc = "fetch"
    /\ \E error \in {"NetworkError", "BadSymbol"} :
        /\ bf_request' = FetchRequest(bf_symbol, bf_window.since_ms, bf_window.limit)
        /\ exchange_calls' = exchange_calls + 1
        /\ Return([raised |-> error, symbol |-> bf_symbol])
    /\ UNCHANGED <<now_ms, settings, symbols, price_data, svc_repo, store_writes,
                   last_plan, bf_response, bf_follows, bf_prev, bfOthers>>

\* one attempt of _fetch_with_retry that raises: a retryable error is retried
\* while attempts remain and re-raised after the last, any other error is
\* raised at once
fetch_with_retry_raises ==
    /\ bf_pc = "fetch"
    /\ \E error \in {"NetworkError", "BadSymbol"} :
        /\ bf_request' = FetchRequest(bf_symbol, bf_window.since_ms, bf_window.limit)
        /\ exchange_calls' = exchange_calls + 1
        /\ IF error = "NetworkError" /\ bf_attempt < DEFAULT_RETRY_ATTEMPTS - 1
           THEN /\ bf_attempt' = bf_attempt + 1
                /\ UNCHANGED <<bf_pc, bf_symbol, bf_minutes, bf_symbol_obj, bf_window,
                               bf_candles, bf_result, ba>>
           ELSE Return([raised |-> error, symbol |-> bf_symbol])
    /\ UNCHANGED <<now_ms, settings, symbols, price_data, svc_repo, store_writes,
                   last_plan, bf_response, bf_follows, bf_prev, bfOthers>>

\* PriceRepository.save_many: one batch of upserts, in list order
RECURSIVE save_many(_, _)
save_many(rows, candles) ==
    IF candles = <<>> THEN rows
    ELSE save_many(Upsert(rows, Head(candles)), Tail(candles))

\* backfill_symbol: the batch write and the success result
backfill_symbol_store ==
    /\ bf_pc = "store"
    /\ price_data' = save_many(price_data, bf_candles)
    /\ store_writes' = store_writes + 1
    /\ Return(SuccessResult(bf_symbol, bf_window, bf_candles))
    /\ UNCHANGED <<now_ms, settings, symbols, svc_repo, bf_request, exchange_calls,
                   last_plan, bf_response, bf_follows, bf_prev, bfOthers>>

\* BackfillService.backfill_all_symbols up to the loop: the active symbols as
\* the service's repository lists them; an empty list is returned at once
backfill_all_symbols ==
    /\ bf_pc = "idle"
    /\ ba.pc # "loop"
    /\ LET listed == list_active(svc_repo)
       IN /\ svc_repo' = listed.repo
          /\ ba' = [pc |-> IF listed.result = <<>> THEN "done" ELSE "loop",
                    symbols |-> listed.result,
                    results |-> <<>>]
    /\ UNCHANGED <<now_ms, settings, symbols, price_data, bf_pc, bfLocals, bf_request,
                   bf_result, exchange_calls, store_writes, last_plan, bf_response,
                   bf_follows, bf_prev, bfOthers>>

\* backfill_all_symbols: the loop calls backfill_symbol for the next symbol
backfill_all_symbols_next ==
    /\ ba.pc = "loop"
    /\ backfill_symbol(ba.symbols[Len(ba.results) + 1].symbol, 0)

\* PriceRepository.save called by any other writer (a test, a script) with
\* any timestamp; a symbol_id without a symbols row is refused by the foreign
\* key
save(symbol_id, timestamp, p) ==
    /\ symbol_id \in 1..Len(symbols)
    /\ \/ Cardinality(price_data) < MaxRows
       \/ \E r \in price_data : r.symbol_id = symbol_id /\ r.timestamp = timestamp
    /\ price_data' = Upsert(price_data, PriceRow(symbol_id, timestamp, p, p, p, p, 0))
    /\ UNCHANGED <<now_ms, settings, symbols, svc_repo, bfState, bfOthers>>

-----------------------------------------------------------------------------
(* HeartbeatScheduler (heartbeat/scheduler.py).

   The scheduler runs on one asyncio event loop: a coroutine keeps the
   processor from one await to the next, so a step below is the code between
   two awaits.  hb.tasks holds every task start() created, hb.task is the index
   of the one self._task refers to (0 for None), hb.invocations the beat numbers handed to the handler, in the order of
   the calls, hb.raised the beats whose handler call raised.  A stop() call
   that finds the scheduler running finds the task of the last start(): the
   task's stop field is the position of that call ("none" before it), and
   hb.restarted tells that start() was called while a stop() call was waiting.  A time of the statistics is recorded as the number of the
   start() or of the beat it was read in (0 for None).  The handler is an
   awaitable that returns, raises an Exception or stays pending; a pending one
   takes a cancellation at its await. *)

MaxBeats == 3
MaxStarts == 2

\* now.second of the two _calculate_*_delay functions
Seconds == {0, 59}

HeartbeatStats ==
    [beats_executed |-> 0, beats_failed |-> 0, start_time |-> 0, last_beat_time |-> 0]

\* HeartbeatScheduler.__init__
HeartbeatScheduler(interval_seconds, buffer_delay_seconds) ==
    [interval |-> interval_seconds, buffer_delay |-> buffer_delay_seconds,
     stats |-> HeartbeatStats, running |-> FALSE, task |-> 0, stop_event |-> FALSE,
     beat_number |-> 0, tasks |-> <<>>, invocations |-> <<>>,
     raised |-> {}, restarted |-> FALSE]

\* asyncio.create_task(self._beat_loop()): a task that has not run yet
NewTask == [pc |-> "created", beat_start |-> 0, woken |-> FALSE, stop |-> "none"]

\* Task.done()
Done(task) == task.pc \in {"done", "cancelled"}

Waiting(task) == task.pc \in {"initial_wait", "next_wait"}

calculate_initial_delay(interval, buffer_delay, seconds) ==
    IF interval = 0 THEN buffer_delay
    ELSE (interval - (seconds % interval)) + buffer_delay

calculate_next_beat_delay(interval, buffer_delay, seconds) ==
    IF interval = 0 THEN buffer_delay
    ELSE (interval - (seconds % interval)) + buffer_delay

start_resets_beat_number ==
    /\ Len(hb.tasks) < MaxStarts
    /\ hb' = IF hb.running THEN hb
             ELSE [hb EXCEPT !.running = TRUE,
                             !.stats.start_time = Len(hb.tasks) + 1,
                             !.stop_event = FALSE,
                             !.beat_number = 0,
                             !.tasks = Append(@, NewTask),
                             !.task = Len(hb.tasks) + 1,
                             !.restarted = @ \/ \E t \in DOMAIN hb.tasks :
                                 hb.tasks[t].stop \in {"wait_for", "timed_out"}]
    /\ UNCHANGED <<rtOthersBeat, rt>>

\* start(): nothing on a running scheduler, else a new beat-loop task
scheduler_start(h) ==
    IF h.running THEN h
    ELSE [h EXCEPT !.running = TRUE,
                   !.stats.start_time = Len(h.tasks) + 1,
                   !.stop_event = FALSE,
                   !.tasks = Append(@, NewTask),
                   !.task = Len(h.tasks) + 1,
                   !.restarted = @ \/ \E t \in DOMAIN h.tasks :
                       h.tasks[t].stop \in {"wait_for", "timed_out"}]

start ==
    /\ Len(hb.tasks) < MaxStarts
    /\ hb' = scheduler_start(hb)
    /\ UNCHANGED <<rtOthersBeat, rt>>

\* Event.set() hands its result to every waiter of the event
SetEvent(tasks) ==
    [t \in DOMAIN tasks |->
        IF Waiting(tasks[t]) THEN [tasks[t] EXCEPT !.woken = TRUE] ELSE tasks[t]]

\* a task that returned or took a cancellation: its locals are gone
Ended(task, pc) == [task EXCEPT !.pc = pc, !.beat_start = 0, !.woken = FALSE]

\* stop() up to its await: returns at once on a scheduler that is not running
\* or whose task is done, else waits for the task
scheduler_stop(h) ==
    IF ~h.running THEN h
    ELSE [h EXCEPT
             !.running = FALSE,
             !.stop_event = TRUE,
             !.tasks = [SetEvent(@) EXCEPT ![h.task].stop =
                           IF Done(h.tasks[h.task]) THEN "returned"
                           ELSE "wait_for"]]

stop ==
    /\ hb' = scheduler_stop(hb)
    /\ UNCHANGED <<rtOthersBeat, rt>>

\* wait_for(self._task, 5.0) ends with the task: stop() returns, or the
\* CancelledError of a task another call cancelled leaves stop()
stop_wait_for_returns(t) ==
    /\ t \in DOMAIN hb.tasks
    /\ hb.tasks[t].stop = "wait_for"
    /\ Done(hb.tasks[t])
    /\ hb' = [hb EXCEPT !.tasks[t].stop =
                 IF hb.tasks[t].pc = "done" THEN "returned" ELSE "raised"]
    /\ UNCHANGED <<rtOthersBeat, rt>>

stop_wait_for_gives_up(t) ==
    /\ t \in DOMAIN hb.tasks
    /\ hb.tasks[t].stop = "wait_for"
    /\ ~Done(hb.tasks[t])
    /\ hb' = [hb EXCEPT !.tasks[t].stop = "returned"]
    /\ UNCHANGED <<rtOthersBeat, rt>>

\* the timeout of wait_for elapses first: wait_for cancels the task it awaits
\* and raises TimeoutError once the task has taken the cancellation
stop_wait_for_timeout(t) ==
    /\ t \in DOMAIN hb.tasks
    /\ hb.tasks[t].stop = "wait_for"
    /\ ~Done(hb.tasks[t])
    /\ hb' = [hb EXCEPT !.tasks[t] = [Ended(@, "cancelled") EXCEPT !.stop = "timed_out"]]
    /\ UNCHANGED <<rtOthersBeat, rt>>

\* except TimeoutError: self._task.cancel(), await self._task
stop_cancel(t) ==
    /\ t \in DOMAIN hb.tasks
    /\ hb.tasks[t].stop = "timed_out"
    /\ hb' = [hb EXCEPT !.tasks[t].stop = "returned",
                        !.tasks[hb.task] = IF Done(@) THEN @ ELSE Ended(@, "cancelled")]
    /\ UNCHANGED <<rtOthersBeat, rt>>

while_true(h, t) ==
    [h EXCEPT !.beat_number = @ + 1,
              !.tasks[t] = [@ EXCEPT !.pc = "handler",
                                     !.beat_start = h.beat_number + 1,
                                     !.woken = FALSE],
              !.invocations = Append(@, h.beat_number + 1)]

\* while self._running: the next beat begins with the handler call, or the
\* loop ends
while_running(h, t) ==
    IF h.running
    THEN [h EXCEPT !.beat_number = @ + 1,
                   !.tasks[t] = [@ EXCEPT !.pc = "handler",
                                          !.beat_start = h.beat_number + 1,
                                          !.woken = FALSE],
                   !.invocations = Append(@, h.beat_number + 1)]
    ELSE [h EXCEPT !.tasks[t] = Ended(@, "done")]

\* the first step of _beat_loop: the alignment delay, then its wait or, with no
\* delay, the loop
beat_loop_begin(t, seconds) ==
    /\ t \in DOMAIN hb.tasks
    /\ hb.tasks[t].pc = "created"
    /\ hb' = IF calculate_initial_delay(hb.interval, hb.buffer_delay, seconds) > 0
             THEN [hb EXCEPT !.tasks[t].pc = "initial_wait"]
             ELSE while_running(hb, t)
    /\ hb'.beat_number <= MaxBeats
    /\ UNCHANGED <<rtOthersBeat, rt>>

\* _stop_event.wait() returned: return from the initial delay, break from the loop
beat_loop_stopped(t) ==
    /\ t \in DOMAIN hb.tasks
    /\ Waiting(hb.tasks[t])
    /\ hb.stop_event \/ hb.tasks[t].woken
    /\ hb' = [hb EXCEPT !.tasks[t] = Ended(@, "done")]
    /\ UNCHANGED <<rtOthersBeat, rt>>

\* the delay elapsed (TimeoutError: pass)
beat_loop_timeout(t) ==
    /\ t \in DOMAIN hb.tasks
    /\ Waiting(hb.tasks[t])
    /\ hb' = while_running(hb, t)
    /\ hb'.beat_number <= MaxBeats
    /\ UNCHANGED <<rtOthersBeat, rt>>

\* after the try statement of a beat: the next delay, then its wait or the loop
next_beat(h, t, seconds) ==
    IF calculate_next_beat_delay(h.interval, h.buffer_delay, seconds) > 0
    THEN [h EXCEPT !.tasks[t].pc = "next_wait"]
    ELSE while_running(h, t)

beat_executed(h, t) ==
    [h EXCEPT !.stats.beats_executed = @ + 1,
              !.stats.last_beat_time = h.tasks[t].beat_start]

beat_failed_ends_loop(h, t) ==
    [h EXCEPT !.stats.beats_failed = @ + 1, !.running = FALSE]

beat_failed(h, t) ==
    [h EXCEPT !.stats.beats_failed = @ + 1]

\* await self._handler(self._beat_number) returned
handler_returns(t, seconds) ==
    /\ t \in DOMAIN hb.tasks
    /\ hb.tasks[t].pc = "handler"
    /\ hb' = next_beat(beat_executed(hb, t), t, seconds)
    /\ hb'.beat_number <= MaxBeats
    /\ UNCHANGED <<rtOthersBeat, rt>>

\* await self._handler(self._beat_number) raised an Exception
handler_raises(t, seconds) ==
    /\ t \in DOMAIN hb.tasks
    /\ hb.tasks[t].pc = "handler"
    /\ hb' = next_beat(beat_failed([hb EXCEPT !.raised = @ \cup {hb.tasks[t].beat_start}], t),
                        t, seconds)
    /\ hb'.beat_number <= MaxBeats
    /\ UNCHANGED <<rtOthersBeat, rt>>

-----------------------------------------------------------------------------
(* The system from construction *)

\* no backfill_all_symbols call has been made
NoRun == [pc |-> "idle", symbols |-> <<>>, results |-> <<>>]

Init ==
    /\ now_ms \in SystemNow
    /\ settings \in SystemSettings
    /\ symbols = <<>>
    /\ price_data = {}
    /\ svc_repo = NewRepo
    /\ bf_pc = "idle"
    /\ bf_symbol = ""
    /\ bf_minutes = 0
    /\ bf_symbol_obj = None
    /\ bf_window = None
    /\ bf_attempt = 0
    /\ bf_request = None
    /\ bf_candles = <<>>
    /\ bf_result = None
    /\ exchange_calls = 0
    /\ store_writes = 0
    /\ last_plan = None
    /\ bf_response = None
    /\ bf_follows = FALSE
    /\ bf_prev = None
    /\ exchange_data = {}
    /\ pf_repo = NewRepo
    /\ ba = NoRun
    /\ st_call = None
    /\ rt = None
    /\ hb = HeartbeatScheduler(60, 5)
    /\ reg = NewInstance
    /\ api = None
    /\ pf_call = None
    /\ wr = None
    /\ dl = None
    /\ co = None
    /\ cr = None

Next ==
    \/ \E symbol \in RegisteredNames : register(symbol)
    \/ \E symbol_id \in 1..Cardinality(RegisteredNames) : deactivate(symbol_id)
    \/ \E symbol_id \in 1..Cardinality(RegisteredNames), timestamp \in SaveTimestamps, p \in Prices :
            save(symbol_id, timestamp, p)
    \/ \E symbol \in SymbolNames, minutes \in {0, 1} : backfill_symbol(symbol, minutes)
    \/ backfill_symbol_plan
    \/ fetch_with_retry_returns
    \/ fetch_with_retry_raises
    \/ backfill_symbol_store

Spec == Init /\ [][Next]_vars

-----------------------------------------------------------------------------
(* The planner on every stored history: one registered symbol, any rows of  *)
(* it in the store, any settings and clock, and an exchange that has no     *)
(* candles to give                                                          *)

\* the stores of at most MaxStored rows of symbol 1
PlanStores ==
    {{PriceRow(1, t, 1, 1, 1, 1, 0) : t \in T} :
        T \in {X \in SUBSET Timestamps : Cardinality(X) <= MaxStored}}

InitPlan ==
    /\ now_ms \in NowChoices
    /\ settings \in SettingsChoices
    /\ symbols = <<SymbolRow(1, "BTC/USDT", TRUE)>>
    /\ price_data \in PlanStores
    /\ svc_repo = NewRepo
    /\ bf_pc = "idle"
    /\ bf_symbol = ""
    /\ bf_minutes = 0
    /\ bf_symbol_obj = None
    /\ bf_window = None
    /\ bf_attempt = 0
    /\ bf_request = None
    /\ bf_candles = <<>>
    /\ bf_result = None
    /\ exchange_calls = 0
    /\ store_writes = 0
    /\ last_plan = None
    /\ bf_response = None
    /\ bf_follows = FALSE
    /\ bf_prev = None
    /\ exchange_data = {}
    /\ pf_repo = NewRepo
    /\ ba = NoRun
    /\ st_call = None
    /\ rt = None
    /\ hb = HeartbeatScheduler(60, 5)
    /\ reg = NewInstance
    /\ api = None
    /\ pf_call = None
    /\ wr = None
    /\ dl = None
    /\ co = None
    /\ cr = None

\* the exchange answers with an empty list
fetch_with_retry_empty == fetch_returns({<<>>})

\* the minutes argument is left out (0) or given; every desired length is
\* reached through settings.backfill_minutes
NextPlan ==
    \/ \E symbol \in SymbolNames, minutes \in {0, MaxDesired} : backfill_symbol(symbol, minutes)
    \/ backfill_symbol_plan
    \/ fetch_with_retry_empty
    \/ fetch_with_retry_raises

SpecPlan == InitPlan /\ [][NextPlan]_vars

-----------------------------------------------------------------------------
(* The heartbeat's PriceFetcher, with a SymbolRepository of its own *)

\* the raw timestamps a ticker may carry: just before and just after the
\* minute boundary at BaseNow
TickerTimestamps == {BaseNow - 1, BaseNow + 1}

\* per symbol, what the batch answer holds: no ticker, or a ticker with a raw
\* timestamp
TickerOutcomes == {0} \cup TickerTimestamps

\* (variant: the raw ticker timestamp is stored as it comes)
store_price_raw(rows, symbol_id, timestamp_ms, price) ==
    Upsert(rows, PriceRow(symbol_id, timestamp_ms, price, price, price, price, 0))

\* PriceFetcher._store_price: the timestamp floored to its minute, one
\* single-point candle saved
store_price(rows, symbol_id, timestamp_ms, price) ==
    LET minute_ts == (timestamp_ms \div 60000) * 60000
    IN Upsert(rows, PriceRow(symbol_id, minute_ts, price, price, price, price, 0))

\* fetch_all's loop over the listed symbols from position i on: a symbol
\* without ticker is a failure and writes nothing, any other has its price
\* stored and its last price updated
RECURSIVE process_symbols(_, _, _, _)
process_symbols(listed, tickers, i, st) ==
    IF i > Len(listed) THEN st
    ELSE LET symbol_obj == listed[i]
             ticker == tickers[symbol_obj.symbol]
         IN IF ticker = 0
            THEN process_symbols(listed, tickers, i + 1, st)
            ELSE LET updated == update_last_price(st.symbols, st.repo, symbol_obj.id, 1)
                 IN process_symbols(listed, tickers, i + 1,
                        [price_data |-> store_price(st.price_data, symbol_obj.id, ticker, 1),
                         symbols |-> updated.symbols,
                         repo |-> updated.repo])

\* PriceFetcher.fetch_all: the active symbols as the fetcher's repository
\* lists them, one batch of tickers (or a batch that fails after its
\* retries, which writes nothing), then the loop
fetch_all ==
    /\ bf_pc = "idle"
    /\ LET listed == list_active(pf_repo)
           names == {listed.result[i].symbol : i \in 1..Len(listed.result)}
       IN \/ /\ pf_repo' = listed.repo
             /\ UNCHANGED <<symbols, price_data>>
          \/ /\ listed.result # <<>>
             /\ \E tickers \in [names -> TickerOutcomes] :
                    LET st == process_symbols(listed.result, tickers, 1,
                                  [price_data |-> price_data, symbols |-> symbols,
                                   repo |-> listed.repo])
                    IN /\ price_data' = st.price_data
                       /\ symbols' = st.symbols
                       /\ pf_repo' = st.repo
    /\ UNCHANGED <<now_ms, settings, svc_repo, bfState, exchange_data, st_call, rt, hb,
                   reg, api, pf_call, wr, dl, co, cr>>

\* PriceFetcher.fetch_single: an unregistered symbol and a failing ticker
\* request write nothing; a ticker has its price stored and the last price
\* updated
fetch_single(symbol) ==
    /\ bf_pc = "idle"
    /\ LET found == get_by_symbol(pf_repo, symbol)
       IN IF found.result = None
          THEN /\ pf_repo' = found.repo
               /\ UNCHANGED <<symbols, price_data>>
          ELSE \E ticker \in TickerOutcomes :
                IF ticker = 0
                THEN /\ pf_repo' = found.repo
                     /\ UNCHANGED <<symbols, price_data>>
                ELSE LET updated == update_last_price(symbols, found.repo, found.result.id, 1)
                     IN /\ price_data' = store_price(price_data, found.result.id, ticker, 1)
                        /\ symbols' = updated.symbols
                        /\ pf_repo' = updated.repo
    /\ UNCHANGED <<now_ms, settings, svc_repo, bfState, exchange_data, st_call, rt, hb,
                   reg, api, pf_call, wr, dl, co, cr>>

-----------------------------------------------------------------------------
(* The services on a store that starts empty: the registry commands, both   *)
(* backfill entry points and both fetcher entry points, and no other writer *)

\* backfill_symbol called from outside backfill_all_symbols
backfill_symbol_direct ==
    /\ ba.pc # "loop"
    /\ \E symbol \in SymbolNames : backfill_symbol(symbol, 0)

NextServices ==
    \/ \E symbol \in RegisteredNames : register(symbol)
    \/ backfill_symbol_direct
    \/ backfill_all_symbols
    \/ backfill_all_symbols_next
    \/ backfill_symbol_plan
    \/ fetch_with_retry_returns
    \/ fetch_with_retry_raises
    \/ backfill_symbol_store
    \/ fetch_all
    \/ \E symbol \in SymbolNames : fetch_single(symbol)

SpecServices == Init /\ [][NextServices]_vars

-----------------------------------------------------------------------------
(* The Store on its own: PriceRepository.save and save_many called with any *)
(* timestamp, for two registered symbols                                    *)

\* longest batch given to save_many
MaxBatch == 2

\* two minute boundaries and a time off the boundary
StoreTimestamps == {BaseNow, BaseNow + MINUTE_MS, BaseNow + 1}

\* the batches of one symbol: any timestamps in ascending order, repeats
\* included
StoreBatches(symbol_id) ==
    UNION {{c \in [1..n -> {PriceRow(symbol_id, t, 2, 2, 2, 2, 2) : t \in StoreTimestamps}] :
                \A i \in 1..(n - 1) : c[i].timestamp <= c[i + 1].timestamp} :
           n \in 0..MaxBatch}

\* the rows of a call whose key the store holds already
Replaced(rows, written) ==
    {i \in 1..Len(written) :
        \E r \in rows : r.symbol_id = written[i].symbol_id /\ r.timestamp = written[i].timestamp}

\* PriceRepository.save: one upsert of the point as given
PriceRepository_save(symbol_id, timestamp, p) ==
    /\ symbol_id \in 1..Len(symbols)
    /\ LET row == PriceRow(symbol_id, timestamp, p, p, p, p, 0)
       IN /\ price_data' = Upsert(price_data, row)
          /\ st_call' = [op |-> "save", rows |-> <<row>>,
                         replaced |-> Replaced(price_data, <<row>>)]
    /\ UNCHANGED <<now_ms, settings, symbols, svc_repo, bfState, exchange_data, pf_repo, rt,
                   hb, reg, api, pf_call, wr, dl, co, cr>>

\* PriceRepository.save_many: nothing for an empty list, else one upsert per
\* candle as given, in list order
PriceRepository_save_many(symbol_id, candles) ==
    /\ symbol_id \in 1..Len(symbols)
    /\ price_data' = save_many(price_data, candles)
    /\ st_call' = [op |-> "save_many", rows |-> candles,
                   replaced |-> Replaced(price_data, candles)]
    /\ UNCHANGED <<now_ms, settings, symbols, svc_repo, bfState, exchange_data, pf_repo, rt,
                   hb, reg, api, pf_call, wr, dl, co, cr>>

InitStore ==
    /\ now_ms \in SystemNow
    /\ settings \in SystemSettings
    /\ symbols = <<SymbolRow(1, "BTC/USDT", TRUE), SymbolRow(2, "ETH/USDT", TRUE)>>
    /\ price_data = {}
    /\ svc_repo = NewRepo
    /\ bf_pc = "idle"
    /\ bf_symbol = ""
    /\ bf_minutes = 0
    /\ bf_symbol_obj = None
    /\ bf_window = None
    /\ bf_attempt = 0
    /\ bf_request = None
    /\ bf_candles = <<>>
    /\ bf_result = None
    /\ exchange_calls = 0
    /\ store_writes = 0
    /\ last_plan = None
    /\ bf_response = None
    /\ bf_follows = FALSE
    /\ bf_prev = None
    /\ exchange_data = {}
    /\ pf_repo = NewRepo
    /\ ba = NoRun
    /\ st_call = None
    /\ rt = None
    /\ hb = HeartbeatScheduler(60, 5)
    /\ reg = NewInstance
    /\ api = None
    /\ pf_call = None
    /\ wr = None
    /\ dl = None
    /\ co = None
    /\ cr = None

NextStore ==
    \/ \E symbol_id \in 1..2, timestamp \in StoreTimestamps, p \in Prices :
            PriceRepository_save(symbol_id, timestamp, p)
    \/ \E symbol_id \in 1..2 : \E candles \in StoreBatches(symbol_id) :
            PriceRepository_save_many(symbol_id, candles)

SpecStore == InitStore /\ [][NextStore]_vars

-----------------------------------------------------------------------------
(* Two successive backfill_symbol calls of one registered symbol, at a fixed *)
(* clock, on any aligned store and any settings, with an exchange whose data *)
(* do not change between the calls                                           *)

\* what a fixed exchange may hold: nothing, or every one-minute candle from
\* some first minute up to the minute before the last closed one, the last
\* closed one or the forming one
ExchangeHoldings ==
    {{}} \cup
    {{t \in AlignedTimestamps : lo <= t /\ t <= hi} :
        lo \in AlignedTimestamps,
        hi \in {UntilMs(BaseNow) + k * MINUTE_MS : k \in {-1, 0, 1}}}

\* the stores of at most MaxRows minute-aligned rows of symbol 1
AlignedStores ==
    {{PriceRow(1, t, 1, 1, 1, 1, 1) : t \in T} :
        T \in {X \in SUBSET AlignedTimestamps : Cardinality(X) <= MaxRows}}

InitIdem ==
    /\ now_ms \in SystemNow
    /\ settings \in SettingsChoices
    /\ symbols = <<SymbolRow(1, "BTC/USDT", TRUE)>>
    /\ price_data \in AlignedStores
    /\ svc_repo = NewRepo
    /\ bf_pc = "idle"
    /\ bf_symbol = ""
    /\ bf_minutes = 0
    /\ bf_symbol_obj = None
    /\ bf_window = None
    /\ bf_attempt = 0
    /\ bf_request = None
    /\ bf_candles = <<>>
    /\ bf_result = None
    /\ exchange_calls = 0
    /\ store_writes = 0
    /\ last_plan = None
    /\ bf_response = None
    /\ bf_follows = FALSE
    /\ bf_prev = None
    /\ exchange_data \in ExchangeHoldings
    /\ pf_repo = NewRepo
    /\ ba = NoRun
    /\ st_call = None
    /\ rt = None
    /\ hb = HeartbeatScheduler(60, 5)
    /\ reg = NewInstance
    /\ api = None
    /\ pf_call = None
    /\ wr = None
    /\ dl = None
    /\ co = None
    /\ cr = None

\* the first call, and the second once the first has returned
backfill_symbol_twice ==
    /\ ~bf_follows
    /\ backfill_symbol("BTC/USDT", 0)

\* the attempt returns what the fixed exchange holds for the request
fetch_with_retry_fixed ==
    fetch_returns({FixedResponse(exchange_data,
                                 FetchRequest(bf_symbol, bf_window.since_ms, bf_window.limit))})

NextIdem ==
    \/ backfill_symbol_twice
    \/ backfill_symbol_plan
    \/ fetch_with_retry_fixed
    \/ backfill_symbol_store

SpecIdem == InitIdem /\ [][NextIdem]_vars

-----------------------------------------------------------------------------
(* One backfill_symbol call after another on any aligned store, with an      *)
(* exchange whose candles carry any raw timestamp inside their minute, two   *)
(* candles of one minute included                                            *)

\* the candle lists of ascending raw timestamps, on the minute boundary or
\* just after it in any mixture, at most limit and at most MaxCandles long
ExchangeResponsesAnyOffset(request) ==
    UNION {{c \in [1..n -> Candles(request)] :
                \A i \in 1..(n - 1) : c[i].timestamp < c[i + 1].timestamp} :
           n \in 0..(IF request.limit < MaxCandles
                     THEN (IF request.limit < 0 THEN 0 ELSE request.limit)
                     ELSE MaxCandles)}

fetch_with_retry_returns_any ==
    fetch_returns(ExchangeResponsesAnyOffset(
        FetchRequest(bf_symbol, bf_window.since_ms, bf_window.limit)))

InitCandles == InitIdem /\ exchange_data = {}

NextCandles ==
    \/ \E minutes \in 0..MaxDesired : backfill_symbol("BTC/USDT", minutes)
    \/ backfill_symbol_plan
    \/ fetch_with_retry_returns_any
    \/ backfill_symbol_store

SpecCandles == InitCandles /\ [][NextCandles]_vars

-----------------------------------------------------------------------------
(* backfill_symbol called again and again with the same arguments, at a      *)
(* fixed clock, on any aligned store and any settings, with an exchange that *)
(* answers every request with a candle for every minute asked for            *)

\* limit candles, one for each minute from since on
FullResponse(request) ==
    FirstCandles(RequestedCandleStarts(request.since, request.limit), request.limit)

fetch_with_retry_full ==
    fetch_returns({FullResponse(FetchRequest(bf_symbol, bf_window.since_ms,
                                             bf_window.limit))})

\* the next call, made by a caller that has the result of the call before
backfill_symbol_again == backfill_symbol_call("BTC/USDT", 0, bf_result)

NextRepeat ==
    \/ backfill_symbol_again
    \/ backfill_symbol_plan
    \/ fetch_with_retry_full
    \/ backfill_symbol_store

\* the caller goes on calling and every await of a call completes
SpecRepeat == InitCandles /\ [][NextRepeat]_vars /\ WF_vars(NextRepeat)

-----------------------------------------------------------------------------
(* backfill_all_symbols over two symbols of any activity, registered in     *)
(* either order, with an exchange that may answer or fail for each          *)

\* the symbols tables of two rows
TwoSymbolTables ==
    {<<SymbolRow(1, names[1], a1), SymbolRow(2, names[2], a2)>> :
        names \in {<<"BTC/USDT", "ETH/USDT">>, <<"ETH/USDT", "BTC/USDT">>},
        a1 \in BOOLEAN, a2 \in BOOLEAN}

InitAll ==
    /\ now_ms \in SystemNow
    /\ settings \in SystemSettings
    /\ symbols \in TwoSymbolTables
    /\ price_data = {}
    /\ svc_repo = NewRepo
    /\ bf_pc = "idle"
    /\ bf_symbol = ""
    /\ bf_minutes = 0
    /\ bf_symbol_obj = None
    /\ bf_window = None
    /\ bf_attempt = 0
    /\ bf_request = None
    /\ bf_candles = <<>>
    /\ bf_result = None
    /\ exchange_calls = 0
    /\ store_writes = 0
    /\ last_plan = None
    /\ bf_response = None
    /\ bf_follows = FALSE
    /\ bf_prev = None
    /\ exchange_data = {}
    /\ pf_repo = NewRepo
    /\ ba = NoRun
    /\ st_call = None
    /\ rt = None
    /\ hb = HeartbeatScheduler(60, 5)
    /\ reg = NewInstance
    /\ api = None
    /\ pf_call = None
    /\ wr = None
    /\ dl = None
    /\ co = None
    /\ cr = None

NextAll ==
    \/ backfill_all_symbols
    \/ backfill_all_symbols_next
    \/ backfill_symbol_plan
    \/ fetch_with_retry_returns
    \/ fetch_with_retry_raises
    \/ backfill_symbol_store

SpecAll == InitAll /\ [][NextAll]_vars

-----------------------------------------------------------------------------
(* utils/retry.py: a function wrapped by with_retry, or handed to           *)
(* RetryableOperation.execute, which share one loop                          *)

\* RetryConfig defaults; delays in seconds
max_attempts == 3
base_delay == 1
max_delay == 60
exponential_base == 2

\* largest max_attempts a RetryConfig is built with here
MaxAttempts == 5

\* RetryConfig.retryable_exceptions, and the exceptions the function may raise
retryable_exceptions == {"NetworkError", "ExchangeNotAvailable", "RequestTimeout"}
Raisable == retryable_exceptions \cup {"ValueError"}

\* RetryConfig
RetryConfig(attempts, base, max, exponential) ==
    [max_attempts |-> attempts, base_delay |-> base, max_delay |-> max,
     exponential_base |-> exponential]

\* base_delay, max_delay and exponential_base of the configurations built in
\* the repository: the defaults, and those of tests/test_retry.py
DelayConfigs == {<<base_delay, max_delay, exponential_base>>, <<2, 30, 3>>, <<10, 50, 2>>}

\* (variant: the delay is not capped)
calculate_delay_uncapped(config, attempt) ==
    config.base_delay * (config.exponential_base ^ attempt)

\* RetryConfig.calculate_delay
calculate_delay(config, attempt) ==
    LET delay == config.base_delay * (config.exponential_base ^ attempt)
    IN IF delay < config.max_delay THEN delay ELSE config.max_delay

\* (variant: every exception is caught for a retry)
IsRetryableAny(error) == TRUE

\* except config.retryable_exceptions
IsRetryable(error) == error \in retryable_exceptions

\* (variant: one attempt more than configured)
HasAttemptLeftInclusive(attempt, attempts) == attempt <= attempts - 1

\* if attempt < config.max_attempts - 1, which is also whether range() has a
\* next attempt
HasAttemptLeft(attempt, attempts) == attempt < attempts - 1

\* what the retry loop leaves alone
rtOthers == <<now_ms, settings, symbols, price_data, svc_repo, bfState, exchange_data,
              pf_repo, st_call, hb, reg, api, pf_call, wr, dl, co, cr>>

\* the wrapper is entered (with_retry's async_wrapper, or execute): attempts
\* is the max_attempts of its config, and no call has been made
retry_enter(kind, config) ==
    /\ IF rt = None THEN TRUE ELSE rt.pc = "done"
    /\ rt' = [kind |-> kind, config |-> config, max_attempts |-> config.max_attempts,
              pc |-> "attempt", attempt |-> 0, calls |-> <<>>, sleeps |-> <<>>,
              result |-> None]
    /\ UNCHANGED rtOthers

\* one turn of the loop: the function is called; its value is returned, an
\* exception outside the retryable set propagates, a retryable one is
\* followed by a sleep and the next attempt, or after the last attempt is
\* raised again; a call's number stands for the value or the exception
\* object it produced
retry_attempt ==
    /\ rt # None
    /\ rt.pc = "attempt"
    /\ \E outcome \in {"ok"} \cup Raisable :
        LET calls == Append(rt.calls, outcome)
            made == Len(calls)
        IN rt' =
            IF outcome = "ok"
            THEN [rt EXCEPT !.calls = calls, !.pc = "done",
                            !.result = [returned |-> made]]
            ELSE IF ~IsRetryable(outcome)
            THEN [rt EXCEPT !.calls = calls, !.pc = "done",
                            !.result = [raised |-> outcome, call |-> made]]
            ELSE IF HasAttemptLeft(rt.attempt, rt.max_attempts)
            THEN [rt EXCEPT !.calls = calls, !.attempt = rt.attempt + 1,
                            !.sleeps = Append(rt.sleeps,
                                              calculate_delay(rt.config, rt.attempt))]
            ELSE [rt EXCEPT !.calls = calls, !.pc = "done",
                            !.result = [raised |-> outcome, call |-> made]]
    /\ UNCHANGED rtOthers

NextRetry ==
    \/ \E kind \in {"with_retry", "RetryableOperation"},
          attempts \in {max_attempts} \cup 1..MaxAttempts, d \in DelayConfigs :
            retry_enter(kind, RetryConfig(attempts, d[1], d[2], d[3]))
    \/ retry_attempt

SpecRetry == Init /\ [][NextRetry]_vars

-----------------------------------------------------------------------------
(* The scheduler alone: start() and stop() called at any moment, with every
   delay configuration and every handler behaviour *)

\* interval and buffer delay: none of either, and the defaults of the settings
Configs == {<<0, 0>>, <<60, 5>>}

InitBeat ==
    /\ now_ms \in SystemNow
    /\ settings \in SystemSettings
    /\ symbols = <<>>
    /\ price_data = {}
    /\ svc_repo = NewRepo
    /\ bf_pc = "idle"
    /\ bf_symbol = ""
    /\ bf_minutes = 0
    /\ bf_symbol_obj = None
    /\ bf_window = None
    /\ bf_attempt = 0
    /\ bf_request = None
    /\ bf_candles = <<>>
    /\ bf_result = None
    /\ exchange_calls = 0
    /\ store_writes = 0
    /\ last_plan = None
    /\ bf_response = None
    /\ bf_follows = FALSE
    /\ bf_prev = None
    /\ exchange_data = {}
    /\ pf_repo = NewRepo
    /\ ba = NoRun
    /\ st_call = None
    /\ rt = None
    /\ hb \in {HeartbeatScheduler(c[1], c[2]) : c \in Configs}
    /\ reg = NewInstance
    /\ api = None
    /\ pf_call = None
    /\ wr = None
    /\ dl = None
    /\ co = None
    /\ cr = None

NextBeat ==
    \/ start
    \/ stop
    \/ \E t \in 1..MaxStarts : stop_wait_for_returns(t)
    \/ \E t \in 1..MaxStarts : stop_wait_for_timeout(t)
    \/ \E t \in 1..MaxStarts : stop_cancel(t)
    \/ \E t \in 1..MaxStarts, seconds \in Seconds : beat_loop_begin(t, seconds)
    \/ \E t \in 1..MaxStarts : beat_loop_stopped(t)
    \/ \E t \in 1..MaxStarts : beat_loop_timeout(t)
    \/ \E t \in 1..MaxStarts, seconds \in Seconds : handler_returns(t, seconds)
    \/ \E t \in 1..MaxStarts, seconds \in Seconds : handler_raises(t, seconds)

SpecBeat == InitBeat /\ [][NextBeat]_vars

\* The event loop runs every task that is ready and its timers fire: a created
\* task takes its first step, a delay elapses or its wait returns, and the
\* wait_for of stop() ends with the task or with its timeout.  Nothing makes a
\* handler complete.
SpecBeatFair ==
    /\ SpecBeat
    /\ \A t \in 1..MaxStarts :
          /\ WF_vars(\E seconds \in Seconds : beat_loop_begin(t, seconds))
          /\ WF_vars(beat_loop_stopped(t) \/ beat_loop_timeout(t))
          /\ WF_vars(stop_wait_for_returns(t) \/ stop_wait_for_timeout(t))
          /\ WF_vars(stop_cancel(t))

-----------------------------------------------------------------------------
(* The Registry through one SymbolRepository instance: any sequence of its
   calls on a table that starts empty *)

NextRegistry ==
    \/ \E symbol \in SymbolNames : SymbolRepository_register(symbol)
    \/ \E symbol_id \in SymbolIds : SymbolRepository_deactivate(symbol_id)
    \/ \E symbol_id \in SymbolIds, price \in RegPrices :
          SymbolRepository_update_last_price(symbol_id, price)
    \/ \E symbol_id \in SymbolIds : SymbolRepository_get(symbol_id)
    \/ \E symbol \in SymbolNames : SymbolRepository_get_by_symbol(symbol)
    \/ SymbolRepository_list_active

SpecRegistry == Init /\ [][NextRegistry]_vars

-----------------------------------------------------------------------------
(* POST /symbols (create_symbol in api.py): the request works on a
   SymbolRepository of its own and on the backfill service of the process.
   api holds the request: its position, the Symbol register returned and the
   response.  The text of an exception, str(e), is the exchange's to choose. *)

\* str(e) of what backfill_symbol raises: the message of its own ValueError,
\* and any text, the empty one too, for an error of the exchange
ExceptionTexts(raised) ==
    IF raised = "ValueError" THEN {"Symbol is not registered. Register it first."}
    ELSE {"", "Network error"}

\* BackfillService.get_backfill_status, with the Symbol its repository returned
get_backfill_status(symbol, symbol_obj) ==
    IF symbol_obj = None
    THEN [error |-> "not registered"]
    ELSE LET latest == get_latest(price_data, symbol_obj.id)
             oldest == get_oldest(price_data, symbol_obj.id)
         IN [symbol |-> symbol,
             symbol_id |-> symbol_obj.id,
             total_records |-> count(price_data, symbol_obj.id),
             latest_timestamp |-> IF latest = None THEN 0 ELSE latest.timestamp,
             oldest_timestamp |-> IF oldest = None THEN 0 ELSE oldest.timestamp]

apiOthers == <<now_ms, settings, price_data, bfState, exchange_data, pf_repo, st_call, rt,
               hb, reg, pf_call, wr, dl, co, cr>>

\* create_symbol up to the call of backfill_symbol: 400 for an active symbol,
\* else the registration
create_symbol_register(symbol) ==
    /\ api = None
    /\ LET looked == repo_get_by_symbol(symbols, NewInstance, symbol)
           existing == looked.result
           out == repo_register(symbols, looked.repo, symbol)
       IN IF (IF existing = None THEN FALSE ELSE existing.is_active)
          THEN /\ api' = [pc |-> "done", symbol |-> symbol, registered |-> None,
                          response |-> [status_code |-> 400]]
               /\ UNCHANGED symbols
          ELSE IF "raised" \in DOMAIN out.result
               THEN /\ api' = [pc |-> "done", symbol |-> symbol, registered |-> None,
                               response |-> [status_code |-> 400]]
                    /\ symbols' = out.symbols
               ELSE /\ api' = [pc |-> "registered", symbol |-> symbol,
                               registered |-> out.result, response |-> None]
                    /\ symbols' = out.symbols
    /\ UNCHANGED <<svc_repo, apiOthers>>

\* await backfill_service.backfill_symbol(symbol_data.symbol)
create_symbol_backfill ==
    /\ api # None
    /\ api.pc = "registered"
    /\ bf_result = None
    /\ backfill_symbol(api.symbol, 0)

\* the message of the response, as its parts
Message(backfill_error, backfill_result) ==
    IF backfill_error # ""
    THEN <<"registered successfully", "but backfill failed", backfill_error>>
    ELSE IF (IF "records_stored" \in DOMAIN backfill_result
             THEN backfill_result.records_stored > 0 ELSE FALSE)
         THEN <<"registered successfully", "with historical records">>
         ELSE <<"registered successfully">>

\* the dict of get_backfill_status with the two entries create_symbol adds
BackfillStatus(status, backfill_error, backfill_result) ==
    IF backfill_error # ""
    THEN [backfill_result |-> backfill_result, backfill_error |-> backfill_error] @@ status
    ELSE [backfill_result |-> backfill_result] @@ status

\* create_symbol from the end of backfill_symbol to the response; backfill_error
\* "" stands for both None and the empty text, which "if backfill_error" treats
\* alike
create_symbol_respond ==
    /\ api # None
    /\ api.pc = "registered"
    /\ bf_pc = "idle"
    /\ bf_result # None
    /\ \E text \in IF "raised" \in DOMAIN bf_result
                   THEN ExceptionTexts(bf_result.raised) ELSE {""} :
          LET backfill_result == IF "raised" \in DOMAIN bf_result
                                 THEN [none |-> TRUE] ELSE bf_result
              found == get_by_symbol(svc_repo, api.symbol)
              status == get_backfill_status(api.symbol, found.result)
          IN /\ svc_repo' = found.repo
             /\ api' = [api EXCEPT
                   !.pc = "done",
                   !.response = [status_code |-> 201,
                                 symbol |-> api.registered,
                                 backfill_status |->
                                     BackfillStatus(status, text, backfill_result),
                                 message |-> Message(text, backfill_result)]]
    /\ UNCHANGED <<symbols, apiOthers>>

\* the table before the request: empty, or with the symbol inactive or active
ApiTables ==
    {<<>>, <<SymbolRow(1, "BTC/USDT", FALSE)>>, <<SymbolRow(1, "BTC/USDT", TRUE)>>}

InitApi ==
    /\ now_ms \in SystemNow
    /\ settings \in SystemSettings
    /\ symbols \in ApiTables
    /\ price_data = {}
    /\ svc_repo = NewRepo
    /\ bf_pc = "idle"
    /\ bf_symbol = ""
    /\ bf_minutes = 0
    /\ bf_symbol_obj = None
    /\ bf_window = None
    /\ bf_attempt = 0
    /\ bf_request = None
    /\ bf_candles = <<>>
    /\ bf_result = None
    /\ exchange_calls = 0
    /\ store_writes = 0
    /\ last_plan = None
    /\ bf_response = None
    /\ bf_follows = FALSE
    /\ bf_prev = None
    /\ exchange_data = {}
    /\ pf_repo = NewRepo
    /\ ba = NoRun
    /\ st_call = None
    /\ rt = None
    /\ hb = HeartbeatScheduler(60, 5)
    /\ reg = NewInstance
    /\ api = None
    /\ pf_call = None
    /\ wr = None
    /\ dl = None
    /\ co = None
    /\ cr = None

NextApi ==
    \/ \E symbol \in RegisteredNames : create_symbol_register(symbol)
    \/ create_symbol_backfill
    \/ backfill_symbol_plan
    \/ fetch_with_retry_returns
    \/ fetch_with_retry_raises
    \/ backfill_symbol_store
    \/ create_symbol_respond

SpecApi == InitApi /\ [][NextApi]_vars

-----------------------------------------------------------------------------
(* One PriceFetcher.fetch_all call with what it returns.  pf_call holds the
   last call: the names active in the table when it was made, the names its
   repository listed, the store before it, what the exchange and the store
   did for each symbol (batch tells whether the batch request was made and
   answered), and the results (or the exception that left it). *)

\* what the store does with one symbol's write: both statements run, the
\* INSERT of _store_price raises, or the UPDATE of update_last_price raises
StoreOutcomes == {"ok", "save_raises", "update_raises"}

\* per listed symbol: no ticker in the batch answer, or a ticker with a raw
\* timestamp just after the minute boundary and what the store does with it
FetchOutcomes ==
    {[ticker |-> 0, store |-> "ok"]}
        \cup {[ticker |-> BaseNow + 1, store |-> s] : s \in StoreOutcomes}

\* PriceFetchResult; price and timestamp 0 stand for None
PriceFetchResult(symbol, price, timestamp, success) ==
    [symbol |-> symbol, price |-> price, timestamp |-> timestamp, success |-> success]

\* PriceFetcher._process_symbol: st holds the store, the table, the fetcher's
\* repository and the results so far
process_symbol(symbol_obj, outcome, st) ==
    IF outcome.ticker = 0
    THEN [st EXCEPT !.results = Append(@, PriceFetchResult(symbol_obj.symbol, 0, 0, FALSE))]
    ELSE IF outcome.store = "save_raises"
    THEN [st EXCEPT !.results = Append(@, PriceFetchResult(symbol_obj.symbol, 0, 0, FALSE))]
    ELSE LET stored == store_price(st.price_data, symbol_obj.id, outcome.ticker, 1)
         IN IF outcome.store = "update_raises"
            THEN [st EXCEPT
                    !.price_data = stored,
                    !.results = Append(@, PriceFetchResult(symbol_obj.symbol, 0, 0, FALSE))]
            ELSE LET updated == update_last_price(st.symbols, st.repo, symbol_obj.id, 1)
                 IN [price_data |-> stored,
                     symbols |-> updated.symbols,
                     repo |-> updated.repo,
                     results |-> Append(st.results,
                                        PriceFetchResult(symbol_obj.symbol, 1,
                                                         outcome.ticker, TRUE))]

\* the loop of fetch_all over the listed symbols, from position i on
RECURSIVE process_listed(_, _, _, _)
process_listed(listed, outcomes, i, st) ==
    IF i > Len(listed) THEN st
    ELSE process_listed(listed, outcomes, i + 1,
                        process_symbol(listed[i], outcomes[listed[i].symbol], st))

\* the names of the active rows of the table
ActiveNames == {symbols[i].symbol : i \in {j \in DOMAIN symbols : symbols[j].is_active}}

fetchOthers == <<now_ms, settings, svc_repo, bfState, exchange_data, st_call, rt, hb, reg,
                 api, wr, dl, co, cr>>

\* PriceFetcher.fetch_all
PriceFetcher_fetch_all ==
    /\ bf_pc = "idle"
    /\ LET listed == list_active(pf_repo)
           names == [i \in 1..Len(listed.result) |-> listed.result[i].symbol]
           called == [active |-> ActiveNames, listed |-> names, before |-> price_data]
       IN \/ \* the SELECT of list_active raises
             /\ pf_repo.active_list_cache = None
             /\ pf_call' = [raised |-> "DatabaseError"] @@ called
             /\ UNCHANGED <<symbols, price_data, pf_repo>>
          \/ \* no active symbols
             /\ listed.result = <<>>
             /\ pf_call' = [batch |-> "none", results |-> <<>>, outcomes |-> <<>>] @@ called
             /\ pf_repo' = listed.repo
             /\ UNCHANGED <<symbols, price_data>>
          \/ \* _fetch_tickers_with_retry raises
             /\ listed.result # <<>>
             /\ pf_call' = [results |-> [i \in 1..Len(names) |->
                                            PriceFetchResult(names[i], 0, 0, FALSE)],
                            batch |-> "failed", outcomes |-> <<>>] @@ called
             /\ pf_repo' = listed.repo
             /\ UNCHANGED <<symbols, price_data>>
          \/ /\ listed.result # <<>>
             /\ \E outcomes \in [{names[i] : i \in 1..Len(names)} -> FetchOutcomes] :
                    LET st == process_listed(listed.result, outcomes, 1,
                                  [price_data |-> price_data, symbols |-> symbols,
                                   repo |-> listed.repo, results |-> <<>>])
                    IN /\ price_data' = st.price_data
                       /\ symbols' = st.symbols
                       /\ pf_repo' = st.repo
                       /\ pf_call' = [batch |-> "answered", results |-> st.results,
                                       outcomes |-> outcomes] @@ called
    /\ UNCHANGED fetchOthers

\* the table before the first call: up to two symbols, registered in either
\* order of activity
FetchTables ==
    {<<>>,
     <<SymbolRow(1, "BTC/USDT", TRUE)>>,
     <<SymbolRow(1, "BTC/USDT", TRUE), SymbolRow(2, "ETH/USDT", TRUE)>>,
     <<SymbolRow(1, "ETH/USDT", TRUE), SymbolRow(2, "BTC/USDT", FALSE)>>}

InitFetch ==
    /\ now_ms \in SystemNow
    /\ settings \in SystemSettings
    /\ symbols \in FetchTables
    /\ price_data = {}
    /\ svc_repo = NewRepo
    /\ bf_pc = "idle"
    /\ bf_symbol = ""
    /\ bf_minutes = 0
    /\ bf_symbol_obj = None
    /\ bf_window = None
    /\ bf_attempt = 0
    /\ bf_request = None
    /\ bf_candles = <<>>
    /\ bf_result = None
    /\ exchange_calls = 0
    /\ store_writes = 0
    /\ last_plan = None
    /\ bf_response = None
    /\ bf_follows = FALSE
    /\ bf_prev = None
    /\ exchange_data = {}
    /\ pf_repo = NewRepo
    /\ ba = NoRun
    /\ st_call = None
    /\ rt = None
    /\ hb = HeartbeatScheduler(60, 5)
    /\ reg = NewInstance
    /\ api = None
    /\ pf_call = None
    /\ wr = None
    /\ dl = None
    /\ co = None
    /\ cr = None

\* fetch_all calls of the heartbeat, and registrations and deactivations made
\* through other repository instances in between
NextFetch ==
    \/ PriceFetcher_fetch_all
    \/ \E symbol \in SymbolNames : register(symbol)
    \/ \E symbol_id \in 1..2 : deactivate(symbol_id)

SpecFetch == InitFetch /\ [][NextFetch]_vars

-----------------------------------------------------------------------------
(* Two writers on the one connection of the DatabaseManager: each is a live
   fetch (PriceFetcher._store_price, one INSERT through db.execute) or a
   backfill (backfill_symbol's save_many, one executemany), followed by its
   commit.  The writers are coroutines of one event loop and the connection
   runs one statement at a time, so a step is one statement.  wr holds the
   two jobs, each writer's position, the writers in the order of their INSERT
   statements, and the rows committed so far; price_data is the table as the
   connection sees it. *)

Writers == {1, 2}

\* the minutes written: the last closed minute and the current one
RaceMinutes == {BaseNow - MINUTE_MS, BaseNow}

\* a point stored before either writer starts
OldPrice == 3

\* the jobs of writer w, whose prices are all w: a live fetch of a ticker with
\* a raw timestamp inside a minute, or a backfill of one or two candles
FetchJobs(w) ==
    {[kind |-> "store_price", symbol_id |-> 1, timestamp_ms |-> t + 1, price |-> w] :
        t \in RaceMinutes}

BackfillJobs(w) ==
    {[kind |-> "save_many", symbol_id |-> 1, candles |-> candles] :
        candles \in {c \in UNION {[1..n -> {OHLCVData(t, w) : t \in RaceMinutes}] :
                                     n \in 1..2} :
                        \A i, j \in DOMAIN c : i # j => c[i].timestamp # c[j].timestamp}}

Jobs(w) == FetchJobs(w) \cup BackfillJobs(w)

\* the rows a job writes, in the order of its statements
JobRows(job) ==
    IF job.kind = "store_price"
    THEN <<PriceRow(job.symbol_id, (job.timestamp_ms \div 60000) * 60000,
                    job.price, job.price, job.price, job.price, 0)>>
    ELSE transform_candles(job.symbol_id, job.candles)

raceOthers == <<now_ms, settings, symbols, svc_repo, bfState, exchange_data, pf_repo,
                st_call, rt, hb, reg, api, pf_call, dl, co, cr>>

\* the INSERT of writer w: conn.execute in db.execute for a live fetch,
\* conn.executemany in save_many for a backfill
writer_insert(w) ==
    /\ wr.pc[w] = "ready"
    /\ LET job == wr.jobs[w]
       IN price_data' =
            IF job.kind = "store_price"
            THEN store_price(price_data, job.symbol_id, job.timestamp_ms, job.price)
            ELSE save_many(price_data, transform_candles(job.symbol_id, job.candles))
    /\ wr' = [wr EXCEPT !.pc[w] = "inserted", !.order = Append(@, w)]
    /\ UNCHANGED raceOthers

\* the conn.commit() of writer w: everything written on the connection so
\* far is committed, the other writer's rows too
writer_commit(w) ==
    /\ wr.pc[w] = "inserted"
    /\ wr' = [wr EXCEPT !.pc[w] = "done", !.committed = price_data]
    /\ UNCHANGED <<price_data, raceOthers>>

InitRace ==
    /\ now_ms \in SystemNow
    /\ settings \in SystemSettings
    /\ symbols = <<SymbolRow(1, "BTC/USDT", TRUE)>>
    /\ price_data \in {{}, {PriceRow(1, BaseNow, OldPrice, OldPrice, OldPrice, OldPrice,
                                     OldPrice)}}
    /\ svc_repo = NewRepo
    /\ bf_pc = "idle"
    /\ bf_symbol = ""
    /\ bf_minutes = 0
    /\ bf_symbol_obj = None
    /\ bf_window = None
    /\ bf_attempt = 0
    /\ bf_request = None
    /\ bf_candles = <<>>
    /\ bf_result = None
    /\ exchange_calls = 0
    /\ store_writes = 0
    /\ last_plan = None
    /\ bf_response = None
    /\ bf_follows = FALSE
    /\ bf_prev = None
    /\ exchange_data = {}
    /\ pf_repo = NewRepo
    /\ ba = NoRun
    /\ st_call = None
    /\ rt = None
    /\ hb = HeartbeatScheduler(60, 5)
    /\ reg = NewInstance
    /\ api = None
    /\ pf_call = None
    /\ dl = None
    /\ co = None
    /\ cr = None
    /\ \E job1 \in Jobs(1), job2 \in Jobs(2) :
           wr = [jobs |-> <<job1, job2>>, pc |-> <<"ready", "ready">>, order |-> <<>>,
                 committed |-> price_data, before |-> price_data]

NextRace ==
    \/ \E w \in Writers : writer_insert(w)
    \/ \E w \in Writers : writer_commit(w)

SpecRace == InitRace /\ [][NextRace]_vars

-----------------------------------------------------------------------------
(* The two delay functions of the scheduler on their own.  The clock is in
   whole seconds since the epoch; datetime.now(UTC).second is the clock modulo
   60.  dl holds the last call: the function, the clock and the delay. *)

MaxClock == 125

\* interval_seconds: the test mode 0, the least the settings allow, the
\* default, and values that do or do not divide a minute or exceed it
Intervals == {0, 10, 45, 60, 120}

\* buffer_delay_seconds: none, and the default
BufferDelays == {0, 5}

dlOthers == <<now_ms, settings, symbols, price_data, svc_repo, bfState, exchange_data,
              pf_repo, st_call, rt, hb, reg, api, pf_call, wr, co, cr>>

\* self._calculate_initial_delay() at the clock now
HeartbeatScheduler_calculate_initial_delay(now) ==
    /\ dl' = [function |-> "initial", now |-> now,
              delay |-> calculate_initial_delay(hb.interval, hb.buffer_delay, now % 60)]
    /\ UNCHANGED dlOthers

\* self._calculate_next_beat_delay() at the clock now
HeartbeatScheduler_calculate_next_beat_delay(now) ==
    /\ dl' = [function |-> "next", now |-> now,
              delay |-> calculate_next_beat_delay(hb.interval, hb.buffer_delay, now % 60)]
    /\ UNCHANGED dlOthers

InitDelay ==
    /\ now_ms \in SystemNow
    /\ settings \in SystemSettings
    /\ symbols = <<>>
    /\ price_data = {}
    /\ svc_repo = NewRepo
    /\ bf_pc = "idle"
    /\ bf_symbol = ""
    /\ bf_minutes = 0
    /\ bf_symbol_obj = None
    /\ bf_window = None
    /\ bf_attempt = 0
    /\ bf_request = None
    /\ bf_candles = <<>>
    /\ bf_result = None
    /\ exchange_calls = 0
    /\ store_writes = 0
    /\ last_plan = None
    /\ bf_response = None
    /\ bf_follows = FALSE
    /\ bf_prev = None
    /\ exchange_data = {}
    /\ pf_repo = NewRepo
    /\ ba = NoRun
    /\ st_call = None
    /\ rt = None
    /\ hb \in {HeartbeatScheduler(i, b) : i \in Intervals, b \in BufferDelays}
    /\ reg = NewInstance
    /\ api = None
    /\ pf_call = None
    /\ wr = None
    /\ dl = None
    /\ co = None
    /\ cr = None

NextDelay ==
    \/ \E now \in 0..MaxClock : HeartbeatScheduler_calculate_initial_delay(now)
    \/ \E now \in 0..MaxClock : HeartbeatScheduler_calculate_next_beat_delay(now)

SpecDelay == InitDelay /\ [][NextDelay]_vars

-----------------------------------------------------------------------------
(* Several SymbolRepository instances over the one table: the instance reg
   of a long-lived caller that only reads, as those of PriceFetcher and
   BackfillService do, and the instances of their own through which symbols
   are registered and deactivated (one per API request) *)

NextInstances ==
    \/ \E symbol \in SymbolNames : register(symbol)
    \/ \E symbol_id \in 1..2 : deactivate(symbol_id)
    \/ \E symbol \in SymbolNames : SymbolRepository_get_by_symbol(symbol)
    \/ SymbolRepository_list_active

SpecInstances == Init /\ [][NextInstances]_vars

-----------------------------------------------------------------------------
(* The coordinator: a HeartbeatCoordinator with its own running flag around  *)
(* the scheduler it creates, started and stopped through the coordinator,    *)
(* while the signal handler the scheduler installs may stop the scheduler    *)

\* what no step of the coordinator touches
coOthers == <<now_ms, settings, symbols, price_data, svc_repo, bfState, exchange_data,
              pf_repo, st_call, rt, reg, api, pf_call, wr, dl, cr>>

\* HeartbeatCoordinator.__init__: a scheduler of the configured interval and
\* buffer delay, and _running = False
HeartbeatCoordinator_init ==
    /\ co = None
    /\ \E config \in Configs :
        hb' = HeartbeatScheduler(config[1], config[2])
    /\ co' = [running |-> FALSE, call |-> "init"]
    /\ UNCHANGED coOthers

\* HeartbeatCoordinator.start(): nothing on a running coordinator, else
\* _running = True and the scheduler's start(), which has no await
HeartbeatCoordinator_start ==
    /\ co # None
    /\ Len(hb.tasks) < MaxStarts
    /\ IF co.running
       THEN /\ co' = [co EXCEPT !.call = "start_ignored"]
            /\ UNCHANGED hb
       ELSE /\ co' = [running |-> TRUE, call |-> "start"]
            /\ hb' = scheduler_start(hb)
    /\ UNCHANGED coOthers

\* HeartbeatCoordinator.stop() up to the await inside the scheduler's stop():
\* nothing on a coordinator that is not running, else _running = False and
\* the scheduler's stop()
HeartbeatCoordinator_stop ==
    /\ co # None
    /\ IF ~co.running
       THEN /\ co' = [co EXCEPT !.call = "stop_ignored"]
            /\ UNCHANGED hb
       ELSE /\ co' = [running |-> FALSE, call |-> "stop"]
            /\ hb' = scheduler_stop(hb)
    /\ UNCHANGED coOthers

\* _signal_handler: SIGINT or SIGTERM after a start() has installed the
\* handler; the task it creates runs the scheduler's stop()
signal_handler ==
    /\ co # None
    /\ Len(hb.tasks) > 0
    /\ hb' = scheduler_stop(hb)
    /\ co' = [co EXCEPT !.call = "signal"]
    /\ UNCHANGED coOthers

NextCoordinator ==
    \/ HeartbeatCoordinator_init
    \/ HeartbeatCoordinator_start
    \/ HeartbeatCoordinator_stop
    \/ signal_handler
    \/ \E t \in 1..MaxStarts : co # None /\ stop_wait_for_returns(t)
    \/ \E t \in 1..MaxStarts : co # None /\ stop_wait_for_timeout(t)
    \/ \E t \in 1..MaxStarts : co # None /\ stop_cancel(t)
    \/ \E t \in 1..MaxStarts, seconds \in Seconds : co # None /\ beat_loop_begin(t, seconds)
    \/ \E t \in 1..MaxStarts : co # None /\ beat_loop_stopped(t)
    \/ \E t \in 1..MaxStarts : co # None /\ beat_loop_timeout(t)
    \/ \E t \in 1..MaxStarts, seconds \in Seconds : co # None /\ handler_returns(t, seconds)
    \/ \E t \in 1..MaxStarts, seconds \in Seconds : co # None /\ handler_raises(t, seconds)

SpecCoordinator == InitBeat /\ [][NextCoordinator]_vars

-----------------------------------------------------------------------------
(* Registrations that overlap: two callers, each inside a POST /symbols      *)
(* request or a plain register call, each with a SymbolRepository of its own *)
(* (fresh caches, so every lookup of a name goes to the table), interleaved  *)
(* at the awaits of their database statements                                *)

\* most registrations begun in one behaviour
MaxRegistrations == 3

Callers == {1, 2}

CallKinds == {"register", "POST"}

\* a caller's call: where it is, what it was called with, whether the name
\* had a row when it began, what its register lookup found, the id it works
\* on, and its result
NoCall == [pc |-> "idle", kind |-> "", symbol |-> "", new |-> FALSE, found |-> "",
           symbol_id |-> 0, result |-> None]

\* SELECT * FROM symbols WHERE symbol = ?, fetch_one: the first row of the name
FirstBySymbol(syms, symbol) ==
    IF \E i \in 1..Len(syms) : syms[i].symbol = symbol
    THEN syms[CHOOSE i \in 1..Len(syms) :
                /\ syms[i].symbol = symbol
                /\ \A j \in 1..Len(syms) : syms[j].symbol = symbol => i <= j]
    ELSE None

crOthers == <<now_ms, settings, price_data, svc_repo, bfState, exchange_data, pf_repo,
              st_call, rt, hb, reg, api, pf_call, wr, dl, co>>

\* the call of caller w is over with result
Finish(w, result) ==
    cr' = [cr EXCEPT !.calls[w].pc = "done", !.calls[w].result = result]

\* (variant: the lookup and the INSERT are one statement, INSERT ... WHERE NOT
\* EXISTS, so a name that is in the table by now is refused)
register_insert_if_absent(w) ==
    /\ cr # None
    /\ cr.calls[w].pc = "insert"
    /\ IF FirstBySymbol(symbols, cr.calls[w].symbol) # None
       THEN /\ Finish(w, IF cr.calls[w].kind = "POST"
                         THEN [raised |-> "HTTPException", status |-> 400]
                         ELSE [raised |-> "ValueError"])
            /\ UNCHANGED symbols
       ELSE /\ symbols' = Append(symbols, SymbolRow(Len(symbols) + 1, cr.calls[w].symbol, TRUE))
            /\ cr' = [cr EXCEPT !.calls[w].pc = "get",
                                !.calls[w].symbol_id = Len(symbols) + 1]
    /\ UNCHANGED crOthers

\* a caller begins: create_symbol builds its repository and looks the name up
\* itself first, register goes straight to its own lookup.  Whether the
\* symbols table has a unique index on the name is the schema's matter: both
\* schemas are explored, one per behaviour
register_begin(w, kind, symbol) ==
    /\ \E unique \in BOOLEAN :
        LET now == IF cr = None
                   THEN [calls |-> [c \in Callers |-> NoCall], begun |-> 0,
                         unique |-> unique]
                   ELSE cr
        IN /\ now.calls[w].pc \in {"idle", "done"}
           /\ now.begun < MaxRegistrations
           /\ cr' = [now EXCEPT !.begun = @ + 1,
                                !.calls[w] = [pc |-> IF kind = "POST" THEN "api_check"
                                                     ELSE "check",
                                              kind |-> kind, symbol |-> symbol,
                                              new |-> FirstBySymbol(symbols, symbol) = None,
                                              found |-> "",
                                              symbol_id |-> 0, result |-> None]]
    /\ UNCHANGED <<symbols, crOthers>>

\* create_symbol: existing = await symbol_repo.get_by_symbol(...), 400 for an
\* active symbol; a Symbol that was found stays in the repository's cache
create_symbol_check(w) ==
    /\ cr # None
    /\ cr.calls[w].pc = "api_check"
    /\ LET existing == FirstBySymbol(symbols, cr.calls[w].symbol)
       IN IF existing # None
          THEN IF existing.is_active
               THEN cr' = [cr EXCEPT !.calls[w].pc = "done",
                                     !.calls[w].found = "active",
                                     !.calls[w].result =
                                        [raised |-> "HTTPException", status |-> 400]]
               ELSE cr' = [cr EXCEPT !.calls[w].pc = "check",
                                     !.calls[w].found = "inactive",
                                     !.calls[w].symbol_id = existing.id]
          ELSE cr' = [cr EXCEPT !.calls[w].pc = "check"]
    /\ UNCHANGED <<symbols, crOthers>>

\* register: existing = await self.get_by_symbol(symbol), answered from the
\* cache when create_symbol's lookup had found the Symbol; ValueError for an
\* active symbol, which create_symbol turns into 400
register_check(w) ==
    /\ cr # None
    /\ cr.calls[w].pc = "check"
    /\ LET existing == IF cr.calls[w].found = "inactive"
                       THEN [symbols[cr.calls[w].symbol_id] EXCEPT !.is_active = FALSE]
                       ELSE FirstBySymbol(symbols, cr.calls[w].symbol)
       IN IF existing # None
          THEN IF existing.is_active
               THEN cr' = [cr EXCEPT !.calls[w].pc = "done",
                                     !.calls[w].found = "active",
                                     !.calls[w].result =
                                        IF cr.calls[w].kind = "POST"
                                        THEN [raised |-> "HTTPException", status |-> 400]
                                        ELSE [raised |-> "ValueError"]]
               ELSE cr' = [cr EXCEPT !.calls[w].pc = "reactivate",
                                     !.calls[w].found = "inactive",
                                     !.calls[w].symbol_id = existing.id]
          ELSE cr' = [cr EXCEPT !.calls[w].pc = "insert", !.calls[w].found = "absent"]
    /\ UNCHANGED <<symbols, crOthers>>

\* register: UPDATE symbols SET is_active = 1 WHERE id = ?
register_reactivate(w) ==
    /\ cr # None
    /\ cr.calls[w].pc = "reactivate"
    /\ symbols' = [symbols EXCEPT ![cr.calls[w].symbol_id].is_active = TRUE]
    /\ cr' = [cr EXCEPT !.calls[w].pc = "get"]
    /\ UNCHANGED crOthers

\* register: INSERT INTO symbols (symbol, is_active) VALUES (?, 1).  With a
\* unique index a name that is in the table by now makes the statement raise
\* sqlite3.IntegrityError, which neither register nor create_symbol handles;
\* without one the statement adds a second row of the name
register_insert(w) ==
    /\ cr # None
    /\ cr.calls[w].pc = "insert"
    /\ IF cr.unique /\ FirstBySymbol(symbols, cr.calls[w].symbol) # None
       THEN /\ Finish(w, [raised |-> "IntegrityError"])
            /\ UNCHANGED symbols
       ELSE /\ symbols' = Append(symbols, SymbolRow(Len(symbols) + 1, cr.calls[w].symbol, TRUE))
            /\ cr' = [cr EXCEPT !.calls[w].pc = "get",
                                !.calls[w].symbol_id = Len(symbols) + 1]
    /\ UNCHANGED crOthers

\* register: return await self.get(symbol_id)
register_get(w) ==
    /\ cr # None
    /\ cr.calls[w].pc = "get"
    /\ Finish(w, symbols[cr.calls[w].symbol_id])
    /\ UNCHANGED <<symbols, crOthers>>

NextConcurrent ==
    \/ \E w \in Callers, kind \in CallKinds, symbol \in SymbolNames :
            register_begin(w, kind, symbol)
    \/ \E w \in Callers : create_symbol_check(w)
    \/ \E w \in Callers : register_check(w)
    \/ \E w \in Callers : register_reactivate(w)
    \/ \E w \in Callers : register_insert(w)
    \/ \E w \in Callers : register_get(w)
    \/ \E symbol_id \in 1..2 : deactivate(symbol_id)

SpecConcurrent == Init /\ [][NextConcurrent]_vars

-----------------------------------------------------------------------------
(* The vocabulary of the properties: a plan, what it was computed from, and
   the quantities the specification names, computed from the inputs alone *)

Planned == last_plan # None
In == last_plan.inputs
Plan == last_plan.window

\* the start of the last fully closed minute, by remainder
LastClosedMinute == (In.now_ms - (In.now_ms % 60000)) - 60000
RequiredMs == In.desired_minutes * 60000
ThresholdMs == In.threshold_minutes * 60000
MaxGapMs == In.max_gap_minutes * 60000
RawGap == LastClosedMinute - In.latest_ts
ClampedGap == IF RawGap < 0 THEN 0 ELSE RawGap
StoredSpan == In.latest_ts - In.oldest_ts

ContinuousStrategies == {"no_action", "extend_backward"}
GapStrategies == {"gap_only", "gap_plus_extend", "gap_only_limited", "gap_plus_extend_limited"}
LimitedStrategies == {"gap_only_limited", "gap_plus_extend_limited"}
OnGapPath == Planned /\ In.has_data /\ RawGap > ThresholdMs

\* what the gap path chooses before the maximum is applied
GapBase == IF ClampedGap + StoredSpan < RequiredMs THEN "gap_plus_extend" ELSE "gap_only"
GapSinceUnclamped ==
    IF GapBase = "gap_plus_extend" THEN LastClosedMinute - RequiredMs ELSE In.latest_ts + 60000

\* the last call has returned with a status result / by raising
ReturnedStatus(status) ==
    /\ bf_pc = "idle"
    /\ bf_result # None
    /\ "status" \in DOMAIN bf_result
    /\ bf_result.status = status
ReturnedRaising(error) ==
    /\ bf_pc = "idle"
    /\ bf_result # None
    /\ "raised" \in DOMAIN bf_result
    /\ bf_result.raised = error

-----------------------------------------------------------------------------
(* C1 *)

\* C1: when the Store holds no point for the symbol, the plan is
\* full_backfill with until_ms = floor(now_ms / 60000) * 60000 - 60000,
\* since_ms = until_ms - desired_minutes * 60000 and limit = desired_minutes
C1_FullBackfill ==
    (Planned /\ ~In.has_data) =>
        /\ Plan.strategy = "full_backfill"
        /\ Plan.until_ms = LastClosedMinute
        /\ Plan.since_ms = Plan.until_ms - In.desired_minutes * 60000
        /\ Plan.limit = In.desired_minutes

\* C1 happens: an empty store planned for the largest desired window, at a
\* clock that is not on a minute boundary
C1_Witness ==
    /\ Planned
    /\ ~In.has_data
    /\ In.desired_minutes = MaxDesired
    /\ In.now_ms % 60000 # 0
    /\ Plan.strategy = "full_backfill"

-----------------------------------------------------------------------------
(* C2 *)

\* C2: when the gap to the latest point (negative counted as 0) is within the
\* threshold and until_ms - oldest.timestamp covers the desired window, the
\* plan is no_action with reason sufficient_history, and backfill_symbol
\* returns status no_action with records_stored 0 after no exchange call and
\* no store write
C2_SufficientHistory ==
    (Planned /\ In.has_data /\ ClampedGap <= ThresholdMs
        /\ LastClosedMinute - In.oldest_ts >= RequiredMs) =>
        /\ Plan.strategy = "no_action"
        /\ Plan.reason = "sufficient_history"
        /\ ReturnedStatus("no_action")
        /\ bf_result.reason = "sufficient_history"
        /\ bf_result.records_stored = 0
        /\ exchange_calls = 0
        /\ store_writes = 0
        /\ bf_request = None

\* C2 happens: stored history of exactly the required span, the latest point
\* exactly the threshold behind, and the call has returned
C2_Witness ==
    /\ Planned
    /\ In.has_data
    /\ ClampedGap = ThresholdMs
    /\ ThresholdMs > 0
    /\ LastClosedMinute - In.oldest_ts = RequiredMs
    /\ ReturnedStatus("no_action")

-----------------------------------------------------------------------------
(* C3 *)

\* C3: with stored data, until_ms - latest.timestamp <= threshold * 60000
\* takes the continuous path (no_action or extend_backward) and a larger gap
\* takes a gap strategy; the comparison is inclusive, so with threshold 1 a
\* gap of 60000 is continuous and a gap of 120000 is not
C3_ThresholdSplit ==
    (Planned /\ In.has_data) =>
        /\ (RawGap <= ThresholdMs) => (Plan.strategy \in ContinuousStrategies)
        /\ (RawGap > ThresholdMs) => (Plan.strategy \in GapStrategies)
        /\ (In.threshold_minutes = 1 /\ RawGap = 60000) =>
                (Plan.strategy \in ContinuousStrategies)
        /\ (In.threshold_minutes = 1 /\ RawGap = 120000) =>
                (Plan.strategy \in GapStrategies)

\* C3 happens: threshold 1 and a gap of exactly one minute
C3_Witness ==
    /\ Planned
    /\ In.has_data
    /\ In.threshold_minutes = 1
    /\ RawGap = 60000
    /\ Plan.strategy \in ContinuousStrategies

-----------------------------------------------------------------------------
(* C4 *)

\* C4: on the gap path, with existing history latest.timestamp -
\* oldest.timestamp, the strategy is gap_plus_extend (fetching from until_ms -
\* required before the maximum is applied) exactly when gap + existing <
\* required, and gap_only otherwise, fetching from latest.timestamp + 60000
\* before the maximum is applied, so that a gap_only window holds no minute at
\* or before latest.timestamp
C4_GapStrategy ==
    OnGapPath =>
        /\ Plan.strategy \in {GapBase, Limited(GapBase)}
        /\ (Plan.strategy = GapBase) => (Plan.since_ms = GapSinceUnclamped)
        /\ (Plan.strategy = Limited(GapBase)) => (Plan.since_ms >= GapSinceUnclamped)
        /\ (GapBase = "gap_only") => (Plan.since_ms > In.latest_ts)

\* C4 happens: gap + existing is exactly the required span, the boundary at
\* which gap_only is chosen
C4_Witness ==
    /\ OnGapPath
    /\ StoredSpan > 0
    /\ ClampedGap + StoredSpan = RequiredMs
    /\ Plan.strategy = "gap_only"

-----------------------------------------------------------------------------
(* C5 *)

\* C5: a gap strategy carries the _limited suffix exactly when the window
\* before the maximum was applied exceeds max_gap_minutes * 60000; then
\* until_ms - since_ms = max_gap_minutes * 60000 and limit = max_gap_minutes;
\* otherwise since_ms is as computed and limit is the whole number of minutes
\* in until_ms - since_ms
C5_MaxGapLimit ==
    OnGapPath =>
        LET exceeded == (LastClosedMinute - GapSinceUnclamped) > MaxGapMs
        IN /\ (Plan.strategy \in LimitedStrategies) <=> exceeded
           /\ exceeded =>
                /\ Plan.until_ms - Plan.since_ms = MaxGapMs
                /\ Plan.limit = In.max_gap_minutes
           /\ ~exceeded =>
                /\ Plan.since_ms = GapSinceUnclamped
                /\ Plan.limit * 60000 <= Plan.until_ms - Plan.since_ms
                /\ Plan.until_ms - Plan.since_ms < (Plan.limit + 1) * 60000

\* C5 happens: a gap window of exactly the maximum, which is not limited
C5_Witness ==
    /\ OnGapPath
    /\ LastClosedMinute - GapSinceUnclamped = MaxGapMs
    /\ Plan.strategy \in GapStrategies \ LimitedStrategies
    /\ Plan.limit = In.max_gap_minutes

-----------------------------------------------------------------------------
(* C6 *)

\* C6 as stated: no plan of any strategy, full_backfill and extend_backward
\* included, requests a window longer than max_gap_minutes * 60000
C6_AnyPlanWithinMaxGap ==
    (Planned /\ Plan.strategy # "no_action") =>
        (Plan.until_ms - Plan.since_ms <= MaxGapMs)

\* C6 amended: the maximum binds the gap strategies only; a full_backfill or
\* extend_backward plan requests exactly desired_minutes * 60000, whatever
\* the maximum, so a plan's window is at most the larger of the two
C6_MaxGapBindsGapStrategies ==
    (Planned /\ Plan.strategy # "no_action") =>
        /\ (Plan.strategy \in GapStrategies) =>
                (Plan.until_ms - Plan.since_ms <= MaxGapMs)
        /\ (Plan.strategy \in {"full_backfill", "extend_backward"}) =>
                /\ Plan.until_ms - Plan.since_ms = RequiredMs
                /\ Plan.limit = In.desired_minutes
        /\ Plan.until_ms - Plan.since_ms <=
                (IF RequiredMs > MaxGapMs THEN RequiredMs ELSE MaxGapMs)

\* C6 happens: an extend_backward plan for a desired window longer than the
\* maximum
C6_Witness ==
    /\ Planned
    /\ In.has_data
    /\ RequiredMs > MaxGapMs
    /\ Plan.strategy = "extend_backward"
    /\ Plan.until_ms - Plan.since_ms = RequiredMs

-----------------------------------------------------------------------------
(* C7 *)

\* C7: a latest point dated after until_ms raises nothing and counts as a gap
\* of 0, so for every threshold >= 0 the plan is on the continuous path,
\* decided by the span back to the oldest point
C7_ClockSkew ==
    (Planned /\ In.has_data /\ In.latest_ts > LastClosedMinute) =>
        /\ ClampedGap = 0
        /\ Plan.strategy =
                (IF LastClosedMinute - In.oldest_ts >= RequiredMs
                 THEN "no_action" ELSE "extend_backward")

\* C7 happens: a latest point one minute ahead, under threshold 0
C7_Witness ==
    /\ Planned
    /\ In.has_data
    /\ In.latest_ts = LastClosedMinute + 60000
    /\ In.threshold_minutes = 0
    /\ Plan.strategy \in ContinuousStrategies

-----------------------------------------------------------------------------
(* C8 *)

-----------------------------------------------------------------------------
(* C9 *)

\* a store of another symbol that agrees with the inputs on nothing but the
\* latest and the oldest timestamp
StoreFrom(inputs) ==
    IF inputs.has_data
    THEN {PriceRow(2, inputs.latest_ts, 1, 1, 1, 1, 0), PriceRow(2, inputs.oldest_ts, 1, 1, 1, 1, 0)}
    ELSE {}

\* the planning step of backfill_symbol
IsPlanningStep == bf_pc = "plan" /\ last_plan' # last_plan

\* C9: planning writes nothing to the Store or the Registry and calls the
\* exchange not at all, and its plan is a function of the desired length, the
\* clock, the threshold, the maximum and the latest and oldest stored
\* timestamps: any store with the same two timestamps yields the same plan
C9_PlanningIsPure ==
    [][IsPlanningStep =>
        /\ price_data' = price_data
        /\ symbols' = symbols
        /\ exchange_calls' = exchange_calls
        /\ store_writes' = store_writes
        /\ bf_request' = bf_request
        /\ last_plan'.inputs.now_ms = now_ms
        /\ last_plan'.inputs.threshold_minutes = settings.gap_fill_threshold_minutes
        /\ last_plan'.inputs.max_gap_minutes = settings.max_gap_fill_minutes
        /\ last_plan'.window =
                calculate_fetch_window(StoreFrom(last_plan'.inputs), 2,
                                       last_plan'.inputs.desired_minutes)]_vars

\* C9 happens: a plan computed from a store of two rows neither of which is
\* on the last closed minute
C9_Witness ==
    /\ Planned
    /\ In.has_data
    /\ In.oldest_ts < In.latest_ts
    /\ In.latest_ts < LastClosedMinute
    /\ Plan.strategy # "no_action"
    /\ exchange_calls = 0
    /\ store_writes = 0

-----------------------------------------------------------------------------
(* C10 *)

\* backfill_symbol is called for a name that has no row in the Registry
IsUnregisteredCall(symbol) ==
    /\ RowBySymbol(symbol) = None
    /\ \E minutes \in 0..MaxDesired : backfill_symbol(symbol, minutes)

\* C10: backfill_symbol for a name that is not registered fails with the
\* 'not registered' error, calls the exchange not at all, writes nothing, and
\* leaves the Store and the Registry as they were
C10_NotRegistered ==
    [][\A symbol \in SymbolNames :
        IsUnregisteredCall(symbol) =>
            /\ bf_pc' = "idle"
            /\ bf_result' = [raised |-> "ValueError", symbol |-> symbol]
            /\ exchange_calls' = 0
            /\ store_writes' = 0
            /\ bf_request' = None
            /\ last_plan' = None
            /\ price_data' = price_data
            /\ symbols' = symbols]_vars

\* C10 happens: the call was refused while the Registry and the Store were
\* not empty
C10_Witness ==
    /\ ReturnedRaising("ValueError")
    /\ bf_result.symbol \notin {symbols[i].symbol : i \in 1..Len(symbols)}
    /\ symbols # <<>>
    /\ price_data # {}
    /\ exchange_calls = 0
    /\ store_writes = 0

-----------------------------------------------------------------------------
(* C11 *)

\* the step in which the fetch of the running call returns a candle list
IsFetchReturn == bf_pc = "fetch" /\ bf_response' # None

\* C11: when the plan carries a fetch window and the exchange returns an
\* empty candle list, backfill_symbol returns status no_data with
\* records_stored 0 and the plan's strategy, raises nothing, and leaves the
\* Store as it was
C11_EmptyResponse ==
    [][(IsFetchReturn /\ bf_response'.candles = <<>>) =>
        /\ bf_pc' = "idle"
        /\ bf_result' = [symbol |-> bf_symbol, status |-> "no_data",
                         strategy |-> Plan.strategy, records_stored |-> 0]
        /\ Plan.strategy # "no_action"
        /\ price_data' = price_data
        /\ store_writes' = 0]_vars

\* C11 happens: an empty answer to a call made on a store that holds points
C11_Witness ==
    /\ ReturnedStatus("no_data")
    /\ bf_response # None
    /\ bf_response.candles = <<>>
    /\ In.has_data
    /\ price_data # {}

-----------------------------------------------------------------------------
(* C12 *)

\* the step in which the running call writes its batch and returns
IsStoreReturn == bf_pc = "store" /\ bf_pc' = "idle"

\* the minute a raw candle timestamp belongs to
MinuteOf(t) == t - (t % 60000)

\* C12: when the exchange returns a non-empty candle list, backfill_symbol
\* upserts all of the candles in one batch and returns status success with
\* the plan's strategy and window and with records_stored equal to the number
\* of candles returned
C12_Success ==
    [][/\ (IsFetchReturn /\ bf_response'.candles # <<>>) =>
            /\ bf_pc' = "store"
            /\ price_data' = price_data
       /\ IsStoreReturn =>
            LET candles == bf_response.candles
            IN /\ candles # <<>>
               /\ bf_result' = [symbol |-> bf_symbol, status |-> "success",
                                strategy |-> Plan.strategy,
                                records_stored |-> Len(candles),
                                fetch_from_ms |-> Plan.since_ms,
                                fetch_to_ms |-> Plan.until_ms]
               /\ store_writes' = 1
               /\ \A i \in 1..Len(candles) :
                    \E r \in price_data' :
                        /\ r.symbol_id = bf_symbol_obj.id
                        /\ r.timestamp = MinuteOf(candles[i].timestamp)
                        /\ \E j \in 1..Len(candles) :
                            /\ MinuteOf(candles[j].timestamp) = r.timestamp
                            /\ r.open = candles[j].open /\ r.high = candles[j].high
                            /\ r.low = candles[j].low /\ r.close = candles[j].close
                            /\ r.volume = candles[j].volume
               /\ \A r \in price_data :
                    (\A i \in 1..Len(candles) :
                        ~(r.symbol_id = bf_symbol_obj.id
                          /\ r.timestamp = MinuteOf(candles[i].timestamp)))
                    => r \in price_data']_vars

\* C12 happens: on an empty store the exchange returned one candle more than
\* the desired minutes, and all of them were stored
C12_Witness ==
    /\ ReturnedStatus("success")
    /\ Planned
    /\ ~In.has_data
    /\ bf_result.strategy = "full_backfill"
    /\ Len(bf_response.candles) = In.desired_minutes + 1
    /\ bf_result.records_stored = In.desired_minutes + 1
    /\ store_writes = 1

-----------------------------------------------------------------------------
\* C13: whatever sequence of backfill_symbol, backfill_all_symbols, fetch_all
\* and fetch_single calls ran on a store that started empty, with candles and
\* tickers of any raw timestamp, every stored point is minute-aligned.
C13_StoredAligned ==
    \A r \in price_data : r.timestamp % 60000 = 0

\* both writers have written from unaligned raw timestamps: a backfill batch
\* whose answer held a candle off the minute, and a ticker row (volume 0)
C13_Witness ==
    /\ ReturnedStatus("success")
    /\ \E i \in 1..Len(bf_response.candles) : bf_response.candles[i].timestamp % 60000 # 0
    /\ \E r \in price_data : r.volume = 0
    /\ \A t \in TickerTimestamps : t % 60000 # 0
    /\ ba.pc = "done" /\ ba.results # <<>>

-----------------------------------------------------------------------------
\* a step that is a PriceRepository.save / save_many call made on its own
IsStoreCall == st_call' # None /\ <<st_call, price_data>>' # <<st_call, price_data>>

\* the keys of a set of rows, the keys a call was given, and alignment
Keys(rows) == {<<r.symbol_id, r.timestamp>> : r \in rows}
GivenKeys(call) == {<<call.rows[i].symbol_id, call.rows[i].timestamp>> : i \in 1..Len(call.rows)}
Aligned(keys) == \A k \in keys : k[2] % 60000 = 0

\* C14 as stated: the Store enforces minute alignment at write time, so that
\* after a save or save_many call with any timestamp the store contains no
\* unaligned point.
C14_StoreEnforcesAlignment ==
    st_call # None => Aligned(Keys(price_data))

\* C14 as the code has it: save and save_many store every timestamp exactly as
\* given, so that after the call the store holds no unaligned point exactly
\* when it held none before and every timestamp given was aligned.
C14_StoredAsGiven ==
    [][IsStoreCall =>
        /\ Keys(price_data') = Keys(price_data) \cup GivenKeys(st_call')
        /\ Aligned(Keys(price_data')) <=>
                (Aligned(Keys(price_data)) /\ Aligned(GivenKeys(st_call')))]_vars

\* a call was given a time off the minute boundary and a minute boundary,
\* and the store holds both
C14_Witness ==
    /\ st_call # None
    /\ ~Aligned(GivenKeys(st_call))
    /\ \E k \in GivenKeys(st_call) : k[2] % 60000 = 0
    /\ GivenKeys(st_call) \subseteq Keys(price_data)

-----------------------------------------------------------------------------
\* the last row a call was given for the key of row
LastGiven(call, row) ==
    LET same == {i \in 1..Len(call.rows) :
                    /\ call.rows[i].symbol_id = row.symbol_id
                    /\ call.rows[i].timestamp = row.timestamp}
    IN call.rows[CHOOSE i \in same : \A j \in same : j <= i]

\* C15: the store holds at most one point per (symbol_id, timestamp); a write
\* to a key it holds overwrites the values and leaves the count, a write to a
\* new key raises the count by one, and no write alters a point of another
\* key or another symbol.
C15_Upsert ==
    [][IsStoreCall =>
        LET given == GivenKeys(st_call')
            new == given \ Keys(price_data)
        IN /\ \A r1, r2 \in price_data' :
                    (r1.symbol_id = r2.symbol_id /\ r1.timestamp = r2.timestamp) => r1 = r2
           /\ \A r \in price_data' :
                    <<r.symbol_id, r.timestamp>> \in given => r = LastGiven(st_call', r)
           /\ Cardinality(price_data') = Cardinality(price_data) + Cardinality(new)
           /\ \A id \in 1..Len(symbols) :
                    count(price_data', id) =
                        count(price_data, id) + Cardinality({k \in new : k[1] = id})
           /\ {r \in price_data' : <<r.symbol_id, r.timestamp>> \notin given}
                = {r \in price_data : <<r.symbol_id, r.timestamp>> \notin given}]_vars

\* a save overwrote a point a batch had stored, next to another point of the
\* same symbol and a point of the other symbol, which kept the batch's values
C15_Witness ==
    /\ st_call # None
    /\ st_call.op = "save"
    /\ st_call.replaced # {}
    /\ st_call.rows[1] \in price_data
    /\ \E r \in price_data : r.symbol_id = st_call.rows[1].symbol_id /\ r.volume = 2
    /\ \E r \in price_data : r.symbol_id # st_call.rows[1].symbol_id /\ r.volume = 2

-----------------------------------------------------------------------------
\* the second of two successive calls has returned; last_plan.stored is the
\* row count its plan found, which is the count the first call left
SecondCallReturned == bf_pc = "idle" /\ bf_follows /\ Planned

\* C16 as stated: for a registered symbol, a fixed clock and unchanging
\* exchange data, the row count after the second of two successive
\* backfill_symbol calls equals the row count after the first, for every
\* initial store and every setting.
C16_Idempotent ==
    SecondCallReturned => count(price_data, 1) = last_plan.stored

\* C16 as the code has it: the same, for every initial store and every
\* setting whose max_gap is at least the desired minutes, so that no window
\* of the first call is cut short of the desired history.
C16_IdempotentWithinMaxGap ==
    (SecondCallReturned /\ In.max_gap_minutes >= In.desired_minutes)
        => count(price_data, 1) = last_plan.stored

\* the second call fetched and stored again what the first had stored: the
\* exchange's history begins inside the desired window, so both calls plan a
\* fetch, and the upserts leave the count where it was
C16_Witness ==
    /\ SecondCallReturned
    /\ In.max_gap_minutes >= In.desired_minutes
    /\ bf_result.status = "success"
    /\ bf_result.records_stored > 0
    /\ count(price_data, 1) = last_plan.stored

-----------------------------------------------------------------------------
\* a backfill_symbol call made by the loop of backfill_all_symbols ends
IsLoopReturn == ba.pc = "loop" /\ bf_pc # "idle" /\ bf_pc' = "idle"

-----------------------------------------------------------------------------
\* the wrapper has returned or raised
RetryDone == rt # None /\ rt.pc = "done"

\* the calls made so far all raised a retryable exception
AllRetryable(calls) == \A i \in 1..Len(calls) : calls[i] \in retryable_exceptions

\* C18: under with_retry and RetryableOperation, when every attempt raises a
\* retryable error the function is called exactly max_attempts times (3 by
\* default) and the error of the last call is raised, the same object; when
\* the k-th attempt succeeds, after k - 1 retryable errors, the function is
\* called exactly k times and the value of that call is returned.
C18_RetryBudget ==
    RetryDone =>
        LET made == Len(rt.calls)
        IN /\ AllRetryable(rt.calls) =>
                /\ made = rt.max_attempts
                /\ rt.result = [raised |-> rt.calls[made], call |-> made]
           /\ (made > 0 /\ rt.calls[made] = "ok") =>
                /\ made <= rt.max_attempts
                /\ AllRetryable(SubSeq(rt.calls, 1, made - 1))
                /\ rt.result = [returned |-> made]
           /\ "returned" \in DOMAIN rt.result => rt.calls[made] = "ok"

\* with the default configuration three calls failed with retryable errors
\* of different classes, and the last one was raised
C18_Witness ==
    /\ RetryDone
    /\ rt.max_attempts = 3
    /\ rt.calls = <<"NetworkError", "ExchangeNotAvailable", "RequestTimeout">>
    /\ rt.result = [raised |-> "RequestTimeout", call |-> 3]

\* C19: under with_retry and RetryableOperation, an exception outside the
\* retryable set ends the loop at the call that raised it: no further call
\* and no sleep follow, and that exception is what the caller gets; raised by
\* the first call, it leaves exactly one call and no sleep at all.
C19_NonRetryable ==
    (rt # None /\ \E i \in 1..Len(rt.calls) : rt.calls[i] \notin {"ok"} \cup retryable_exceptions) =>
        LET made == Len(rt.calls)
        IN /\ rt.pc = "done"
           /\ AllRetryable(SubSeq(rt.calls, 1, made - 1))
           /\ rt.result = [raised |-> rt.calls[made], call |-> made]
           /\ Len(rt.sleeps) = made - 1
           /\ rt.calls[1] \notin retryable_exceptions => (made = 1 /\ rt.sleeps = <<>>)

\* the first call raised a ValueError with attempts to spare
C19_Witness ==
    /\ RetryDone
    /\ rt.max_attempts = 3
    /\ rt.calls = <<"ValueError">>
    /\ rt.sleeps = <<>>
    /\ rt.result = [raised |-> "ValueError", call |-> 1]

-----------------------------------------------------------------------------
\* a step that is one fetch_ohlcv call of the running backfill_symbol call
IsFetchCall == bf_pc = "fetch" /\ exchange_calls' = exchange_calls + 1

\* C20: the fetch of backfill_symbol runs under the retry policy. A call
\* that fails with a retryable network error is followed by another, up to 3
\* fetch_ohlcv calls per backfill_symbol invocation, and only the 3rd failure
\* propagates; an error that is not retryable propagates at the call that
\* raised it, after exactly one call when it is the first.
C20_FetchUnderRetry ==
    [][IsFetchCall =>
        /\ exchange_calls' = bf_attempt + 1
        /\ exchange_calls' <= 3
        /\ bf_pc' = "fetch" => (bf_attempt' = bf_attempt + 1 /\ exchange_calls' < 3)
        /\ (bf_pc' = "idle" /\ "raised" \in DOMAIN bf_result') =>
                /\ bf_result'.raised = "NetworkError" => exchange_calls' = 3
                /\ (bf_result'.raised # "NetworkError" /\ bf_attempt = 0)
                        => exchange_calls' = 1]_vars

\* a network error outlived the retries: the call raised it after 3 fetches
C20_Witness ==
    /\ ReturnedRaising("NetworkError")
    /\ exchange_calls = 3
    /\ bf_request # None

-----------------------------------------------------------------------------
(* The scheduler *)

Stats == hb.stats

\* the handler call of some beat raised in this step
IsFailedBeat == hb'.raised # hb.raised

\* a beat loop that ended in this step
LoopEnded(t) == t \in DOMAIN hb.tasks /\ ~Done(hb.tasks[t]) /\ Done(hb'.tasks[t])

\* the loop of task t is in the delay after a beat whose handler raised, on a
\* running scheduler whose stop() was not called during the delay, and the
\* model's bound leaves room for a beat
AfterFailedBeat(t) ==
    /\ t \in DOMAIN hb.tasks
    /\ hb.tasks[t].pc = "next_wait"
    /\ hb.tasks[t].beat_start \in hb.raised
    /\ ~hb.tasks[t].woken
    /\ hb.running
    /\ hb.beat_number < MaxBeats

C21_Counted ==
    [][IsFailedBeat =>
          /\ Stats'.beats_failed = Stats.beats_failed + 1
          /\ Stats'.beats_executed = Stats.beats_executed
          /\ Stats'.last_beat_time = Stats.last_beat_time
          /\ hb'.running = hb.running
          /\ \A t \in 1..MaxStarts : LoopEnded(t) => ~hb.running]_vars

\* the delay after a failed beat ends with the handler call of a later beat,
\* unless stop() is called (or another loop uses up the model's beats)
C21_NextBeat ==
    [][\A t \in 1..MaxStarts :
          AfterFailedBeat(t) /\ ~AfterFailedBeat(t)' =>
              \/ hb'.tasks[t].pc = "handler" /\ hb'.tasks[t].beat_start > hb.tasks[t].beat_start
              \/ ~hb'.running
              \/ hb'.tasks[t].pc = "cancelled"
              \/ hb'.beat_number = MaxBeats]_vars

\* and the delay does end
C21_GoesOn == \A t \in 1..MaxStarts : []<>~AfterFailedBeat(t)

\* C21: a beat whose handler raises an exception adds one to beats_failed and
\* leaves beats_executed, last_beat_time and the running flag as they were; it
\* ends no beat loop of a running scheduler, and the loop goes on to call the
\* handler for a later beat unless stop() is called.
C21_HandlerError == C21_Counted /\ C21_NextBeat /\ C21_GoesOn

\* the first beat failed and the second beat was begun on a scheduler nobody
\* stopped
C21_Witness ==
    /\ hb.raised = {1}
    /\ hb.invocations = <<1, 2>>
    /\ hb.stats.beats_failed = 1
    /\ hb.running
    /\ \A t \in DOMAIN hb.tasks : hb.tasks[t].stop = "none"

\* the handler was called in this step
IsInvocation == hb'.invocations # hb.invocations

\* stop() has been called and start() was not called after it, before and
\* after this step (a scheduler never started has no beat loop)
Stopped == ~hb.running /\ hb.task # 0

\* C22: from the stop() call on a running scheduler until the next start(), no
\* step calls the handler: a handler call in flight may complete, a loop in its
\* initial delay or with no delay at all calls the handler no more.
C22_NoBeatAfterStop ==
    [][Stopped /\ Stopped' => ~IsInvocation]_vars

\* with no delay at all, stop() came while the handler call of beat 1 was in
\* flight; the call completed and the loop ended without a second beat
C22_Witness ==
    /\ hb.interval = 0
    /\ hb.buffer_delay = 0
    /\ ~hb.running
    /\ Len(hb.tasks) = 1
    /\ hb.tasks[1].pc = "done"
    /\ hb.tasks[1].stop = "returned"
    /\ hb.invocations = <<1>>
    /\ hb.stats.beats_executed = 1

\* the stop() call that found task t is between its await and its return
StopInProgress(t) ==
    t \in DOMAIN hb.tasks /\ hb.tasks[t].stop \in {"wait_for", "timed_out"}

\* the stop() call that found task t returns in this step
StopReturns(t) ==
    /\ t \in DOMAIN hb'.tasks
    /\ hb'.tasks[t].stop = "returned"
    /\ t \in DOMAIN hb.tasks => hb.tasks[t].stop # "returned"

\* no stop() call stays in its wait for ever
C23_Terminates == \A t \in 1..MaxStarts : []<>~StopInProgress(t)

\* a stop() call ends by returning, and at its return the scheduler is not
\* running and its task is done
C23_AtReturn ==
    [][\A t \in 1..MaxStarts :
          /\ StopReturns(t) => ~hb'.running /\ Done(hb'.tasks[hb'.task])
          /\ t \in DOMAIN hb'.tasks => hb'.tasks[t].stop # "raised"]_vars

\* C23 as stated: every stop() call returns, and when it returns is_running is
\* false and the beat task has finished or been cancelled.
C23_StopReturns == C23_Terminates /\ C23_AtReturn

\* the same as long as start() was never called while a stop() call waited
C23_AtReturnUnlessStarted ==
    [][~hb'.restarted =>
          \A t \in 1..MaxStarts :
              /\ StopReturns(t) => ~hb'.running /\ Done(hb'.tasks[hb'.task])
              /\ t \in DOMAIN hb'.tasks => hb'.tasks[t].stop # "raised"]_vars

\* C23 (amended): a stop() call on a running scheduler ends after a bounded
\* wait, also when the handler call in flight never completes; as long as
\* start() is not called while a stop() call waits, it returns, and at its
\* return is_running is false and the beat task has finished or been cancelled.
C23_StopReturnsUnlessStarted == C23_Terminates /\ C23_AtReturnUnlessStarted

\* stop() returned after it cancelled the loop in its first handler call, which
\* never completed
C23_Witness ==
    /\ Len(hb.tasks) = 1
    /\ hb.tasks[1].pc = "cancelled"
    /\ hb.tasks[1].stop = "returned"
    /\ hb.invocations = <<1>>
    /\ hb.stats.beats_executed = 0
    /\ hb.stats.beats_failed = 0
    /\ ~hb.running

\* C30: the i-th handler call since the construction of the scheduler receives
\* the beat number i, whatever beats failed before it and whatever stop() and
\* start() calls came between.
C30_BeatNumbers ==
    \A i \in 1..Len(hb.invocations) : hb.invocations[i] = i

\* the first beat failed, the scheduler was stopped and started again, and the
\* loop of the second start() is in the third handler call
C30_Witness ==
    /\ 1 \in hb.raised
    /\ Len(hb.tasks) = 2
    /\ Done(hb.tasks[1])
    /\ hb.tasks[2].pc = "handler"
    /\ hb.tasks[2].beat_start = 3
    /\ hb.invocations = <<1, 2, 3>>

-----------------------------------------------------------------------------
(* The Registry *)

\* a call of the operation op was made through the instance in this step
IsCall(op) ==
    /\ reg'.call # None
    /\ reg'.call.op = op
    /\ <<reg, symbols>>' # <<reg, symbols>>

\* the rows the table had before the step are in it after the step
RowsKept == \A i \in 1..Len(symbols) : i <= Len(symbols') /\ symbols'[i] = symbols[i]

C24_Register ==
    [][IsCall("register") =>
          LET name == reg'.call.args.symbol
              before == SelectBySymbol(symbols, name)
              result == reg'.call.result
          IN IF before = None
             THEN /\ Len(symbols') = Len(symbols) + 1
                  /\ RowsKept
                  /\ symbols'[Len(symbols')].symbol = name
                  /\ symbols'[Len(symbols')].is_active
                  /\ \A i \in 1..Len(symbols) : symbols[i].id # symbols'[Len(symbols')].id
                  /\ "id" \in DOMAIN result
                  /\ result.id = symbols'[Len(symbols')].id
                  /\ result.is_active
             ELSE IF ~before.is_active
                  THEN /\ symbols' = [symbols EXCEPT ![before.id].is_active = TRUE]
                       /\ "id" \in DOMAIN result
                       /\ result.id = before.id
                       /\ result.created_at = before.created_at
                       /\ result.is_active
                  ELSE /\ result = [raised |-> "ValueError"]
                       /\ symbols' = symbols]_vars

OneRowPerName ==
    \A i, j \in 1..Len(symbols) : symbols[i].symbol = symbols[j].symbol => i = j

IdsNeverChange ==
    [][\A i \in 1..Len(symbols) :
          /\ i <= Len(symbols')
          /\ symbols'[i].id = symbols[i].id
          /\ symbols'[i].symbol = symbols[i].symbol]_vars

\* C24: register(name) adds one active row with a fresh id when the table has
\* no row of that name, sets is_active on the row when it has an inactive one
\* (same id, same created_at, no new row), and raises and leaves the table when
\* it has an active one; so the table has at most one row per name and no row
\* ever changes its id.
C24_RegisterOneRowPerName == C24_Register /\ []OneRowPerName /\ IdsNeverChange

\* the last call registered BTC/USDT again after it had been deactivated: it
\* returned the id the row had before ETH/USDT was registered
C24_Witness ==
    /\ reg.call # None
    /\ reg.call.op = "register"
    /\ reg.call.args.symbol = "BTC/USDT"
    /\ "id" \in DOMAIN reg.call.result
    /\ reg.call.result.id = 1
    /\ Len(symbols) = 2
    /\ symbols[1].is_active

\* the objects the caches of the instance r serve
Served(r) ==
    {r.cache[id] : id \in DOMAIN r.cache}
    \cup {r.symbol_cache[n] : n \in DOMAIN r.symbol_cache}
    \cup (IF r.active_list_cache = None THEN {}
          ELSE {r.active_list_cache.list[i] : i \in 1..Len(r.active_list_cache.list)})

\* after the step the caches serve no object that existed before it
NothingOldServed == \A obj \in Served(reg') : obj.oid > reg.objects

\* the step changed the table
Mutated == symbols' # symbols

PriceSetInPlace ==
    /\ DOMAIN reg'.cache = DOMAIN reg.cache
    /\ DOMAIN reg'.symbol_cache = DOMAIN reg.symbol_cache
    /\ (reg'.active_list_cache = None) = (reg.active_list_cache = None)
    /\ {obj.oid : obj \in Served(reg')} = {obj.oid : obj \in Served(reg)}
    /\ \A obj \in Served(reg') :
          obj.last_price = IF obj.id = reg'.call.args.symbol_id
                           THEN reg'.call.args.price
                           ELSE symbols[obj.id].last_price

AsStored(obj, syms) ==
    /\ obj.id \in 1..Len(syms)
    /\ obj.is_active = syms[obj.id].is_active
    /\ obj.last_price = syms[obj.id].last_price

\* C29: what get, get_by_symbol and list_active return through the instance
\* agrees with the table on is_active and last_price, after whatever register,
\* deactivate and update_last_price calls were made through it; get and
\* get_by_symbol return None exactly when the table has no such row, and
\* list_active returns exactly the rows whose is_active is true.
C29_ReadsAsStored ==
    [][/\ IsCall("get") =>
             LET result == reg'.call.result
             IN IF reg'.call.args.symbol_id \in 1..Len(symbols')
                THEN "id" \in DOMAIN result
                     /\ result.id = reg'.call.args.symbol_id
                     /\ AsStored(result, symbols')
                ELSE result = None
       /\ IsCall("get_by_symbol") =>
             LET result == reg'.call.result
             IN IF SelectBySymbol(symbols', reg'.call.args.symbol) # None
                THEN "id" \in DOMAIN result
                     /\ result.symbol = reg'.call.args.symbol
                     /\ AsStored(result, symbols')
                ELSE result = None
       /\ IsCall("list_active") =>
             LET list == reg'.call.result.list
             IN /\ \A i \in 1..Len(list) : AsStored(list[i], symbols')
                /\ {list[i].id : i \in 1..Len(list)}
                      = {j \in 1..Len(symbols') : symbols'[j].is_active}
                /\ \A i, j \in 1..Len(list) : list[i].id = list[j].id => i = j]_vars

\* list_active returned one Symbol, with a price set by update_last_price, of
\* a table whose other row was deactivated
C29_Witness ==
    /\ reg.call # None
    /\ reg.call.op = "list_active"
    /\ Len(symbols) = 2
    /\ ~symbols[1].is_active
    /\ symbols[2].last_price = 2
    /\ Len(reg.call.result.list) = 1
    /\ reg.call.result.list[1].last_price = 2


(* POST /symbols *)

\* the request has answered after a registration whose backfill raised
AnsweredAfterRaise ==
    IF api = None \/ bf_result = None THEN FALSE
    ELSE api.pc = "done" /\ api.registered # None /\ "raised" \in DOMAIN bf_result

\* the symbol of the request is one active row of the table
StaysRegistered ==
    \E i \in DOMAIN symbols :
        /\ symbols[i].symbol = api.symbol
        /\ symbols[i].is_active
        /\ symbols[i].id = api.registered.id

\* the response is a 201 with the symbol and the backfill status
Responds201 ==
    /\ api.response.status_code = 201
    /\ api.response.symbol = api.registered
    /\ "backfill_result" \in DOMAIN api.response.backfill_status
    /\ "total_records" \in DOMAIN api.response.backfill_status

\* the failure is told in the backfill_error field and in the message
FailureReported ==
    /\ "backfill_error" \in DOMAIN api.response.backfill_status
    /\ \E i \in DOMAIN api.response.message :
           api.response.message[i] = "but backfill failed"

\* C26: when backfill_symbol raises, whatever the exception, POST /symbols
\* still answers 201 with the symbol and the backfill status, the failure is
\* reported in the backfill_error field and in the message, and the symbol
\* stays registered and active.
C26_BackfillFailureIsAdvisory ==
    AnsweredAfterRaise => Responds201 /\ FailureReported /\ StaysRegistered

\* the part of C26 the code keeps for every exception: 201, the symbol, the
\* backfill status, the symbol registered and active
C26_StillCreated ==
    AnsweredAfterRaise => Responds201 /\ StaysRegistered

\* a backfill that raised with a message, answered 201 and reported
C26_Witness ==
    AnsweredAfterRaise /\ Responds201 /\ FailureReported /\ StaysRegistered


(* PriceFetcher.fetch_all *)

\* the last fetch_all call returned
Returned == IF pf_call = None THEN FALSE ELSE "results" \in DOMAIN pf_call

ResultNames == [i \in DOMAIN pf_call.results |-> pf_call.results[i].symbol]

\* one result for each name of the set, and no other
OneResultPer(names) ==
    /\ Len(pf_call.results) = Cardinality(names)
    /\ {ResultNames[i] : i \in DOMAIN ResultNames} = names

\* the call wrote no point of the symbol
NoWriteFor(name) ==
    LET id == RowBySymbol(name).id
    IN {r \in price_data : r.symbol_id = id} = {r \in pf_call.before : r.symbol_id = id}

\* the single-point candle of the symbol's ticker is in the store
StoredFor(name) ==
    \E r \in price_data :
        /\ r.symbol_id = RowBySymbol(name).id
        /\ r.timestamp = (pf_call.outcomes[name].ticker \div 60000) * 60000
        /\ r.close = 1

\* the three cases of failure, result by result
FailuresPerSymbol ==
    \A i \in DOMAIN pf_call.results :
        LET result == pf_call.results[i]
            name == result.symbol
        IN /\ pf_call.batch = "failed" => ~result.success /\ price_data = pf_call.before
           /\ pf_call.batch = "answered" =>
                LET outcome == pf_call.outcomes[name]
                IN /\ outcome.ticker = 0 => ~result.success /\ NoWriteFor(name)
                   /\ outcome.ticker # 0 /\ outcome.store # "ok" => ~result.success
                   /\ outcome.ticker # 0 /\ outcome.store = "ok" =>
                          result.success /\ StoredFor(name)

\* C27: fetch_all never raises and returns exactly one result per active
\* symbol; a symbol without ticker fails and is not written, a store error
\* fails that symbol only while the others are stored, and a failed batch
\* request fails every symbol and writes nothing.
C27_OneResultPerActiveSymbol ==
    pf_call # None =>
        /\ Returned
        /\ OneResultPer(pf_call.active)
        /\ FailuresPerSymbol

\* what holds of every call that returns: one result per symbol its
\* repository listed, in the listed order, and the three cases of failure
C27_OneResultPerListedSymbol ==
    Returned => ResultNames = pf_call.listed /\ FailuresPerSymbol

\* two symbols listed, the store failing for the first and storing the second
C27_Witness ==
    /\ Returned
    /\ pf_call.batch = "answered"
    /\ Len(pf_call.results) = 2
    /\ pf_call.outcomes[ResultNames[1]].store = "save_raises"
    /\ ~pf_call.results[1].success
    /\ pf_call.results[2].success
    /\ OneResultPer(pf_call.active)


(* Concurrent writers *)

\* both writers have written and committed
BothDone == IF wr = None THEN FALSE ELSE \A w \in Writers : wr.pc[w] = "done"

\* the keys writer w writes
KeysOf(w) ==
    {<<JobRows(wr.jobs[w])[i].symbol_id, JobRows(wr.jobs[w])[i].timestamp>> :
        i \in DOMAIN JobRows(wr.jobs[w])}

\* the row writer w writes for the key
RowOf(w, key) ==
    CHOOSE r \in {JobRows(wr.jobs[w])[i] : i \in DOMAIN JobRows(wr.jobs[w])} :
        <<r.symbol_id, r.timestamp>> = key

\* the writer whose INSERT of the key ran last
LastWriter(key) ==
    LET at == {i \in DOMAIN wr.order : key \in KeysOf(wr.order[i])}
    IN wr.order[CHOOSE i \in at : \A j \in at : j <= i]

RowsAt(rows, key) == {r \in rows : <<r.symbol_id, r.timestamp>> = key}

\* both writers write the key
Contested(key) == \A w \in Writers : key \in KeysOf(w)

\* C28: when two writers (a backfill and a live fetch, or two backfills, or
\* two live fetches) write the same (symbol_id, minute) concurrently, then in
\* every interleaving the committed store ends with exactly one row for the
\* key, and that row is, in every field, the row of the writer whose write
\* came last.
C28_LastWriteWins ==
    BothDone =>
        \A key \in KeysOf(1) \cup KeysOf(2) :
            /\ RowsAt(wr.committed, key) = {RowOf(LastWriter(key), key)}
            /\ RowsAt(price_data, key) = RowsAt(wr.committed, key)

\* a backfill and a live fetch of the same minute over a stored point, the
\* live fetch inserting first, the backfill's row left
C28_Witness ==
    /\ BothDone
    /\ wr.jobs[1].kind = "store_price"
    /\ wr.jobs[2].kind = "save_many"
    /\ wr.order = <<1, 2>>
    /\ Contested(<<1, BaseNow>>)
    /\ RowsAt(wr.before, <<1, BaseNow>>) # {}
    /\ RowsAt(wr.committed, <<1, BaseNow>>) = {RowOf(2, <<1, BaseNow>>)}


(* The delay before a beat *)

\* the wall-clock second the beat is scheduled for, less the buffer
Boundary == dl.now + dl.delay - hb.buffer_delay

\* C31: for an interval I >= 10, buffer B and any clock, either delay is
\* I - (s mod I) + B with s the seconds elapsed in the current cycle of I, so
\* B < delay <= I + B and the beat falls B seconds after a multiple of I; with
\* I = 0 the delay is B.
C31_DelayAlignsToInterval ==
    dl # None =>
        IF hb.interval = 0
        THEN dl.delay = hb.buffer_delay
        ELSE /\ dl.delay = hb.interval - ((dl.now % hb.interval) % hb.interval)
                               + hb.buffer_delay
             /\ hb.buffer_delay < dl.delay
             /\ dl.delay <= hb.interval + hb.buffer_delay
             /\ Boundary % hb.interval = 0

\* what holds for every interval: the bounds of the delay, the constant
\* delay of interval 0, and the alignment when the interval divides a minute
C31_DelayBounds ==
    dl # None =>
        IF hb.interval = 0
        THEN dl.delay = hb.buffer_delay
        ELSE /\ hb.buffer_delay < dl.delay
             /\ dl.delay <= hb.interval + hb.buffer_delay
             /\ 60 % hb.interval = 0 => Boundary % hb.interval = 0

\* the default configuration in the middle of a minute
C31_Witness ==
    /\ dl # None
    /\ hb.interval = 60
    /\ hb.buffer_delay = 5
    /\ dl.now % 60 = 20
    /\ dl.delay = 45
    /\ Boundary % 60 = 0


(* The backoff schedule *)

\* min(base_delay * exponential_base^k, max_delay)
Backoff(config, k) ==
    LET uncapped == config.base_delay * (config.exponential_base ^ k)
    IN CHOOSE d \in {uncapped, config.max_delay} :
           d <= uncapped /\ d <= config.max_delay

\* the wrapper of with_retry is running or has ended
InWrapper == IF rt = None THEN FALSE ELSE rt.kind = "with_retry"

\* C32: calculate_delay(k) is min(base_delay * exponential_base^k, max_delay)
\* for the 0-indexed attempt k, so it never decreases with k and never
\* exceeds max_delay; the wrapper of with_retry sleeps calculate_delay(k)
\* after the k-th failed retryable attempt only when another attempt
\* remains: at most max_attempts - 1 sleeps, and none after the final failure.
C32_BackoffSchedule ==
    InWrapper =>
        /\ \A k \in 0..MaxAttempts :
              /\ calculate_delay(rt.config, k) = Backoff(rt.config, k)
              /\ calculate_delay(rt.config, k) <= calculate_delay(rt.config, k + 1)
              /\ calculate_delay(rt.config, k) <= rt.config.max_delay
        /\ \A i \in DOMAIN rt.sleeps :
              /\ rt.sleeps[i] = Backoff(rt.config, i - 1)
              /\ rt.calls[i] \in retryable_exceptions
        /\ Len(rt.sleeps) <= rt.config.max_attempts - 1
        /\ rt.pc = "attempt" => Len(rt.sleeps) = Len(rt.calls)
        /\ rt.pc = "done" => Len(rt.sleeps) = Len(rt.calls) - 1

\* five attempts that all fail, the fourth sleep capped at max_delay and no
\* sleep after the fifth failure
C32_Witness ==
    /\ InWrapper
    /\ rt.pc = "done"
    /\ rt.config = RetryConfig(5, 10, 50, 2)
    /\ Len(rt.calls) = 5
    /\ rt.sleeps = <<10, 20, 40, 50>>
    /\ "raised" \in DOMAIN rt.result


(* One beat loop *)

\* the beat-loop tasks that have not finished and were not cancelled
AliveLoops == {t \in DOMAIN hb.tasks : ~Done(hb.tasks[t])}

\* no stop() call is waiting (start() has no await and is never in progress)
AllCallsReturned == \A t \in DOMAIN hb.tasks : ~StopInProgress(t)

\* C33: whatever the interleaving of start() and stop() calls, a start()
\* during a stop() that still waits for the handler included, at most one
\* beat loop is alive at any time, and once every call has returned
\* is_running is true exactly when one beat loop is alive.
C33_OneBeatLoop ==
    /\ Cardinality(AliveLoops) <= 1
    /\ AllCallsReturned => (hb.running <=> Cardinality(AliveLoops) = 1)

\* the same as long as start() was never called while a stop() call waited
C33_OneBeatLoopUnlessStarted ==
    ~hb.restarted => C33_OneBeatLoop

\* a running scheduler with no call in progress and its one loop in a handler
\* call
C33_Witness ==
    /\ hb.running
    /\ Len(hb.tasks) = 1
    /\ hb.tasks[1].pc = "handler"
    /\ hb.stats.start_time = 1
    /\ AliveLoops = {1}
    /\ AllCallsReturned


(* Several repository instances *)

\* a read of the operation op was made through the instance reg in this step
IsRead(op) ==
    /\ reg' # reg
    /\ reg'.call # None
    /\ reg'.call.op = op

\* the names of the Symbols of a list
NamesOf(list) == {list[i].symbol : i \in DOMAIN list}

\* the names of the active rows after the step
ActiveNamesAfter ==
    {symbols'[i].symbol : i \in {j \in DOMAIN symbols' : symbols'[j].is_active}}

\* C34: a symbol registered, reactivated or deactivated through one instance
\* shows in the next list_active and get_by_symbol of every other instance:
\* list_active returns the rows that are active in the table, as fetch_all
\* and backfill_all_symbols need it to, and get_by_symbol the row as stored.
C34_SeenByEveryInstance ==
    [][/\ IsRead("list_active") =>
             NamesOf(reg'.call.result.list) = ActiveNamesAfter
       /\ IsRead("get_by_symbol") =>
             LET result == reg'.call.result
             IN IF SelectBySymbol(symbols', reg'.call.args.symbol) # None
                THEN "id" \in DOMAIN result /\ AsStored(result, symbols')
                ELSE result = None]_vars

\* an instance whose first list_active came after the registration elsewhere
\* lists the symbol
C34_Witness ==
    /\ reg.call # None
    /\ reg.call.op = "list_active"
    /\ Len(symbols) = 2
    /\ NamesOf(reg.call.result.list) = SymbolNames
    /\ ActiveNames = SymbolNames

-----------------------------------------------------------------------------
(* C35 *)

\* every stored timestamp is a multiple of 60000
StoredAligned == \A r \in price_data : r.timestamp % 60000 = 0

HasFetchWindow == Planned /\ Plan.strategy # "no_action"

\* C35: on a store of minute-aligned timestamps every plan with a fetch
\* window is well-formed, for every desired_minutes >= 1, threshold >= 0 and
\* max gap >= 1: since_ms is minute-aligned, since_ms <= until_ms, limit >= 0
\* and limit * 60000 = until_ms - since_ms
C35_WellFormedWindow ==
    (HasFetchWindow /\ StoredAligned) =>
        /\ Plan.since_ms % 60000 = 0
        /\ Plan.since_ms <= Plan.until_ms
        /\ Plan.limit >= 0
        /\ Plan.limit * 60000 = Plan.until_ms - Plan.since_ms

\* C35 happens: the latest stored point is the minute before the last closed
\* one and the threshold is 0, so the gap window is empty (since_ms = until_ms
\* and limit = 0), the smallest a fetch window gets
C35_Witness ==
    /\ HasFetchWindow
    /\ StoredAligned
    /\ In.has_data
    /\ In.threshold_minutes = 0
    /\ Plan.strategy = "gap_only"
    /\ Plan.since_ms = Plan.until_ms
    /\ Plan.limit = 0

-----------------------------------------------------------------------------
(* C36 *)

\* the keys the candles of the answer are stored under
CandleKeys(candles) ==
    {<<bf_symbol_obj.id, MinuteOf(candles[i].timestamp)>> : i \in 1..Len(candles)}

\* the rows the batch write inserted or overwrote
RowsWritten == {r \in price_data' :
                    <<r.symbol_id, r.timestamp>> \in CandleKeys(bf_response.candles)}

\* C36: when backfill_symbol returns success, records_stored is the number of
\* distinct (symbol_id, timestamp) rows the call inserted or overwrote, also
\* when two fetched candles normalise to the same minute; so the symbol's
\* count grows by exactly records_stored when none of the fetched minutes was
\* stored before
C36_RecordsStoredIsRowsWritten ==
    [][IsStoreReturn =>
        /\ bf_result'.status = "success"
        /\ bf_result'.records_stored = Cardinality(RowsWritten)
        /\ (Keys(price_data) \cap CandleKeys(bf_response.candles) = {}) =>
                count(price_data', bf_symbol_obj.id)
                    = count(price_data, bf_symbol_obj.id) + bf_result'.records_stored]_vars

\* what holds of every successful call: records_stored is the length of the
\* candle list, which is the number of rows written when the candles are of
\* different minutes
C36_RecordsStoredIsCandlesFetched ==
    [][IsStoreReturn =>
        /\ bf_result'.records_stored = Len(bf_response.candles)
        /\ Cardinality(RowsWritten) <= bf_result'.records_stored
        /\ (Cardinality(CandleKeys(bf_response.candles)) = Len(bf_response.candles)) =>
                bf_result'.records_stored = Cardinality(RowsWritten)]_vars

\* C36 happens: a successful call whose answer held two candles of one minute
C36_Witness ==
    /\ ReturnedStatus("success")
    /\ bf_response # None
    /\ Len(bf_response.candles) = 2
    /\ MinuteOf(bf_response.candles[1].timestamp) = MinuteOf(bf_response.candles[2].timestamp)
    /\ bf_result.records_stored = 2

-----------------------------------------------------------------------------
(* C37 *)

\* the timestamps stored for symbol 1
StoredMinutes(rows) == {r.timestamp : r \in RowsOf(rows, 1)}

\* no minute is missing between the oldest and the latest stored point
Contiguous(rows) ==
    \A a \in StoredMinutes(rows), b \in StoredMinutes(rows) :
        \A k \in 0..MaxBack + MaxAhead + 1 :
            (a + k * 60000 < b) => (a + k * 60000 \in StoredMinutes(rows))

\* the answer holds a candle for every minute of the requested window
AnswerCoversWindow ==
    \A k \in 0..Plan.limit :
        \E i \in 1..Len(bf_response.candles) :
            bf_response.candles[i].timestamp = Plan.since_ms + k * 60000

\* every minute of [until_ms - desired_minutes * 60000, until_ms] is stored
RetentionWindowStored(rows) ==
    \A k \in 0..In.desired_minutes :
        (LastClosedMinute - k * 60000) \in StoredMinutes(rows)

\* C37 as stated: when backfill_symbol returns success, the exchange returned
\* a candle for every minute of the requested window and the history stored
\* before was contiguous, the store afterwards holds a point for every minute
\* of [until_ms - desired_minutes * 60000, until_ms], for every strategy, the
\* _limited ones included
C37_NoInteriorHole ==
    [][(IsStoreReturn /\ AnswerCoversWindow /\ Contiguous(price_data))
            => RetentionWindowStored(price_data')]_vars

\* C37 amended: the same for every strategy but the _limited ones, whose
\* window is cut to max_gap_minutes and may leave minutes between the latest
\* point stored before and since_ms without a point
C37_NoInteriorHoleUnlessLimited ==
    [][(IsStoreReturn /\ AnswerCoversWindow /\ Contiguous(price_data)
            /\ Plan.strategy \notin LimitedStrategies)
            => RetentionWindowStored(price_data')]_vars

\* C37 happens: a gap_only call on a stored history has returned success, the
\* candles joined the rows stored before without a hole, and the retention
\* window is stored whole
C37_Witness ==
    /\ ReturnedStatus("success")
    /\ Planned
    /\ In.has_data
    /\ Plan.strategy = "gap_only"
    /\ Plan.limit >= 1
    /\ bf_result.records_stored = Plan.limit + 1
    /\ count(price_data, 1) = last_plan.stored + bf_result.records_stored
    /\ Contiguous(price_data)
    /\ RetentionWindowStored(price_data)

-----------------------------------------------------------------------------
(* C38 *)

CallReturned == bf_pc = "idle" /\ bf_result # None

\* the call before the last one returned this status
Previous(status) ==
    IF bf_prev = None THEN FALSE
    ELSE IF "status" \in DOMAIN bf_prev THEN bf_prev.status = status ELSE FALSE

\* a call that follows one that returned no_action returns no_action and
\* writes nothing
StaysSettled ==
    /\ [](CallReturned /\ Previous("no_action") =>
            ReturnedStatus("no_action") /\ store_writes = 0)
    /\ [][(bf_pc # "idle" /\ Previous("no_action")) => price_data' = price_data]_vars

\* C38 as stated: at a fixed now_ms, with an exchange that returns every
\* minute of any requested window, repeated backfill_symbol calls eventually
\* return no_action, the first call after any successful one already returns
\* no_action, and from then on every further call returns no_action and
\* leaves the store unchanged
C38_SettlesAfterOneSuccess ==
    /\ <>ReturnedStatus("no_action")
    /\ [](CallReturned /\ Previous("success") => ReturnedStatus("no_action"))
    /\ StaysSettled

\* C38 amended: the call after a successful gap_plus_extend_limited call
\* succeeds once more, with extend_backward; the call after any other
\* successful call returns no_action
C38_SettlesAfterTwoSuccesses ==
    /\ <>ReturnedStatus("no_action")
    /\ [](CallReturned /\ Previous("success") =>
            IF bf_prev.strategy = "gap_plus_extend_limited"
            THEN ReturnedStatus("success") /\ bf_result.strategy = "extend_backward"
            ELSE ReturnedStatus("no_action"))
    /\ StaysSettled

\* C38 happens: a call that followed a no_action call has returned no_action
\* on a store that an earlier call had to fill
C38_Witness ==
    /\ CallReturned
    /\ Previous("no_action")
    /\ ReturnedStatus("no_action")
    /\ \E r \in price_data : r.timestamp = LastClosedMinute
    /\ count(price_data, 1) > MaxRows

-----------------------------------------------------------------------------
(* C39 *)

\* a call of the coordinator is made in this step
IsCoordinatorCall(op) == co # None /\ co' # co /\ co'.call \in {op, op \o "_ignored"}

\* C39: in every state with no start() or stop() in progress the
\* coordinator's is_running equals its scheduler's is_running, also after the
\* scheduler was stopped by its own signal handler; so the coordinator's
\* start() always restarts a stopped heartbeat and its stop() always stops a
\* running one
C39_CoordinatorFollowsScheduler ==
    /\ []((co # None /\ AllCallsReturned) => (co.running <=> hb.running))
    /\ [][/\ (IsCoordinatorCall("start") /\ ~hb.running) => hb'.running
          /\ (IsCoordinatorCall("stop") /\ hb.running) => ~hb'.running]_vars

\* what holds is one direction: with no call in progress, a coordinator that
\* is not running has a scheduler that is not running
C39_StoppedCoordinatorStoppedScheduler ==
    (co # None /\ AllCallsReturned /\ ~co.running) => ~hb.running

\* C39 happens: the coordinator was started, its loop ran a beat, and the
\* signal handler has stopped the scheduler with every call returned
C39_Witness ==
    /\ co # None
    /\ co.call = "signal"
    /\ ~hb.running
    /\ Len(hb.tasks) = 1
    /\ hb.stats.beats_executed >= 1
    /\ Done(hb.tasks[1])
    /\ AllCallsReturned

-----------------------------------------------------------------------------
(* C40 *)

\* both callers have registered the same name and both calls are over
BothCallsDone(symbol) ==
    /\ cr # None
    /\ \A w \in Callers : cr.calls[w].pc = "done" /\ cr.calls[w].symbol = symbol

\* the name had no row when either call began, and no deactivation of its
\* row came between the calls: no call found the name inactive
NewName(symbol) ==
    /\ cr # None
    /\ \A w \in Callers : cr.calls[w].new /\ cr.calls[w].found # "inactive"

Rejected(w) ==
    /\ "raised" \in DOMAIN cr.calls[w].result
    /\ \/ cr.calls[w].result.raised = "ValueError"
       \/ /\ cr.calls[w].result.raised = "HTTPException"
          /\ cr.calls[w].result.status = 400

Succeeded(w) == "raised" \notin DOMAIN cr.calls[w].result

RowsNamed(symbol) == {i \in 1..Len(symbols) : symbols[i].symbol = symbol}

\* C40: two registrations of the same new name that overlap, as POST /symbols
\* requests or as register calls, leave exactly one row of the name in every
\* interleaving: one call succeeds, the other is rejected with ValueError
\* (HTTP 400), and never both insert
C40_OneRowPerConcurrentName ==
    \A symbol \in SymbolNames :
        (BothCallsDone(symbol) /\ NewName(symbol)) =>
            /\ Cardinality(RowsNamed(symbol)) = 1
            /\ \E w \in Callers :
                /\ Succeeded(w)
                /\ \A o \in Callers \ {w} : Rejected(o)

\* what holds whatever the schema: a call that found the name active when it
\* looked is rejected, and at least one of the two calls succeeds
C40_FirstInsertSucceeds ==
    \A symbol \in SymbolNames :
        (BothCallsDone(symbol) /\ NewName(symbol)) =>
            /\ Cardinality(RowsNamed(symbol)) >= 1
            /\ \E w \in Callers : Succeeded(w)
            /\ cr.unique => Cardinality(RowsNamed(symbol)) = 1

\* C40 happens: both callers looked the new name up before either inserted,
\* and both calls are over
C40_Witness ==
    /\ BothCallsDone("BTC/USDT")
    /\ NewName("BTC/USDT")
    /\ \A w \in Callers : cr.calls[w].found = "absent"
    /\ \A w \in Callers : cr.calls[w].kind = "POST"
    /\ \E w \in Callers : Succeeded(w)
    /\ \E w \in Callers : ~Succeeded(w) /\ ~Rejected(w)

====
